---- MODULE Spec2Model ----
(***************************************************************************)
(* Model of the live tutoring session controller of director-of-studies:   *)
(* the quota ledger (apps/agent/app/billing.py) and the session lifecycle  *)
(* handlers (apps/agent/app/main.py).  The relational store is the state;  *)
(* every database transaction of a handler is one atomic step.             *)
(***************************************************************************)
EXTENDS Integers, Sequences, FiniteSets, TLC

VARIABLES
    tick,       \* index of the wall clock: NOW() is ClockAt(tick)
    sessions,   \* table sessions: session id -> row
    endcall,    \* per session: the in-flight / last _end_session_sync call
    summaries,  \* table session_summaries: sequence of rows
    snapshots,  \* table progress_snapshots: number of rows
    flags,      \* table repeat_flags: number of rows
    links,      \* table parent_student_links of the student: parent ids in row order
    subs,       \* table subscriptions: profile -> rows, most recently updated first
    credits,    \* table usage_credits: grant id -> row
    lastCall,   \* ledger interface: the last call made and what it returned
    resp,       \* the response of the last end_session request that returned
    cons,       \* consumer id -> state of an in-flight _consume_credits transaction
    gate,       \* what the gates of create_session read: catalogue, restrictions, profile,
                \* student, enrolments, invite code, local wall clock
    worker      \* the state of one run_agent_session task and of its start request

vars == <<tick, sessions, endcall, summaries, snapshots, flags, links, subs, credits, lastCall, resp, cons,
          gate, worker>>

-----------------------------------------------------------------------------
(* Bounds of the model *)

MaxSessions == 1
MaxHistory == 2
MaxTicks == 3
MaxEnds == 2
MaxGrants == 2
MaxCredit == 3
MaxRepeat == 1
MaxUtterances == 3      \* conversation items of one agent task
MaxLoopTime == 5        \* loop.time() of the agent task, in watchdog polls of 0.5 s
SilenceNudge == 2       \* _silence_nudge, in watchdog polls
MaxContext == 3         \* items of the chat context before the first turn
MaxTurns == 2           \* completed user turns
MaxStarts == 2          \* start_session_agent requests
PlanMinutes == 62

(* Program constants *)

NULL == -1
FreeTierMinutes == 60

Student == "s"
Stranger == "x"
Parents == {"p1", "p2"}
Profiles == {Student} \cup Parents
SessionIds == 1 .. MaxSessions
GrantIds == 1 .. MaxGrants

Max(a, b) == IF a >= b THEN a ELSE b
\* variant of Min: the first argument, unclamped
Unclamped(a, b) == a

Min(a, b) == IF a <= b THEN a ELSE b

-----------------------------------------------------------------------------
(* The wall clock.  Time advances in steps of 61 s and 3600 s alternately,  *)
(* so that session durations straddle a minute boundary and the free tier.  *)

TickStep(i) == IF i % 2 = 0 THEN 61 ELSE 3600

RECURSIVE ClockAt(_)
ClockAt(t) == IF t = 0 THEN 0 ELSE ClockAt(t - 1) + TickStep(t - 1)

Now == ClockAt(tick)

-----------------------------------------------------------------------------
(* Rows *)

NoSession == [status |-> "none", started_at |-> NULL, ended_at |-> NULL,
              duration_seconds |-> NULL, enrolment_id |-> NULL]

NoGrant == [profile_id |-> "none", minutes_remaining |-> 0, expires_at |-> NULL, created_at |-> 0]

NoSub == [status |-> "none", period_start |-> NULL, period_end |-> NULL, monthly_minutes |-> NULL]

ActiveStatuses == {"active", "trialing", "past_due"}

-----------------------------------------------------------------------------
(* Quota ledger: billing.py *)

Range(f) == {f[i] : i \in DOMAIN f}

RECURSIVE SumSeconds(_)
SumSeconds(S) ==
    IF S = {} THEN 0
    ELSE LET s == CHOOSE x \in S : TRUE
             d == sessions[s].duration_seconds
         IN  (IF d = NULL THEN 0 ELSE d) + SumSeconds(S \ {s})

\* SELECT COALESCE(SUM(COALESCE(duration_seconds, 0)), 0) FROM sessions
\* WHERE student_id = ANY(ids) [AND started_at >= ps] [AND started_at < pe]; seconds // 60
MinutesUsedForStudents(student_ids, period_start, period_end) ==
    IF student_ids = {} THEN 0
    ELSE LET rows == {s \in DOMAIN sessions :
                        /\ sessions[s].status # "none"
                        /\ Student \in student_ids
                        /\ (period_start # NULL =>
                              sessions[s].started_at # NULL /\ sessions[s].started_at >= period_start)
                        /\ (period_end # NULL =>
                              sessions[s].started_at # NULL /\ sessions[s].started_at < period_end)}
         IN  Max(0, SumSeconds(rows) \div 60)

ProfileStudentIds(profile_id) ==
    IF profile_id \notin Profiles THEN {}
    ELSE IF profile_id = Student THEN {Student}
    ELSE IF profile_id \in Range(links) THEN {Student}
    ELSE {}

ParentProfileIdsForStudent(student_id) ==
    IF student_id = Student THEN links ELSE <<>>

RECURSIVE FirstActive(_)
FirstActive(rows) ==
    IF rows = <<>> THEN NoSub
    ELSE IF Head(rows).status \in ActiveStatuses THEN Head(rows)
    ELSE FirstActive(Tail(rows))

\* WHERE profile_id = p AND status IN ('active','trialing','past_due') ORDER BY updated_at DESC LIMIT 1
ActiveSubscriptionForProfile(profile_id) ==
    IF profile_id \in Profiles THEN FirstActive(subs[profile_id]) ELSE NoSub

Expired(g, cr) == cr[g].expires_at # NULL /\ ~(cr[g].expires_at > Now)

EligibleGrants(cr, profile_id) ==
    {g \in GrantIds : /\ cr[g].profile_id = profile_id
                      /\ cr[g].minutes_remaining > 0
                      /\ ~Expired(g, cr)}

RECURSIVE SumMinutes(_, _)
SumMinutes(cr, G) ==
    IF G = {} THEN 0
    ELSE LET g == CHOOSE x \in G : TRUE
         IN  cr[g].minutes_remaining + SumMinutes(cr, G \ {g})

CreditsRemainingIn(cr, profile_id) == SumMinutes(cr, EligibleGrants(cr, profile_id))

CreditsRemainingForProfile(profile_id) == CreditsRemainingIn(credits, profile_id)

\* variant of OrderedRows: ORDER BY created_at DESC
RECURSIVE OrderedRowsNewestFirst(_, _)
OrderedRowsNewestFirst(cr, G) ==
    IF G = {} THEN <<>>
    ELSE LET g == CHOOSE x \in G : \A y \in G : cr[x].created_at >= cr[y].created_at
         IN  <<[id |-> g, available |-> cr[g].minutes_remaining]>>
                \o OrderedRowsNewestFirst(cr, G \ {g})

\* rows of the SELECT in _consume_credits: eligible grants, ORDER BY created_at ASC,
\* each with the minutes_remaining that the SELECT saw
RECURSIVE OrderedRows(_, _)
OrderedRows(cr, G) ==
    IF G = {} THEN <<>>
    ELSE LET g == CHOOSE x \in G : \A y \in G : cr[x].created_at <= cr[y].created_at
         IN  <<[id |-> g, available |-> cr[g].minutes_remaining]>> \o OrderedRows(cr, G \ {g})

SelectGrantRows(cr, profile_id) == OrderedRows(cr, EligibleGrants(cr, profile_id))

\* UPDATE usage_credits SET minutes_remaining = minutes_remaining - deduction WHERE id = g
Decrement(cr, g, deduction) ==
    [cr EXCEPT ![g].minutes_remaining = cr[g].minutes_remaining - deduction]

RECURSIVE ConsumeLoop(_, _, _)
ConsumeLoop(cr, rows, remaining) ==
    IF rows = <<>> \/ remaining <= 0 THEN cr
    ELSE LET deduction == Min(remaining, Head(rows).available)
         IN  ConsumeLoop(Decrement(cr, Head(rows).id, deduction), Tail(rows), remaining - deduction)

ConsumeCredits(cr, profile_id, minutes_to_consume) ==
    IF minutes_to_consume <= 0 THEN cr
    ELSE ConsumeLoop(cr, SelectGrantRows(cr, profile_id), minutes_to_consume)

QuotaForProfile(profile_id, include_free_tier) ==
    LET student_ids == ProfileStudentIds(profile_id)
        free_remaining ==
            IF include_free_tier
            THEN Max(0, FreeTierMinutes - MinutesUsedForStudents(student_ids, NULL, NULL))
            ELSE 0
        row == ActiveSubscriptionForProfile(profile_id)
        monthly_minutes == IF row.monthly_minutes = NULL THEN 0 ELSE row.monthly_minutes
        subscription_remaining ==
            IF row.status # "none" /\ monthly_minutes > 0
            THEN Max(0, monthly_minutes
                        - MinutesUsedForStudents(student_ids, row.period_start, row.period_end))
            ELSE 0
        credits_remaining == CreditsRemainingForProfile(profile_id)
        remaining == free_remaining + subscription_remaining + credits_remaining
    IN  IF remaining > 0
        THEN [allowed |-> TRUE, reason |-> "none", remaining_minutes |-> remaining,
              free_minutes_remaining |-> free_remaining,
              subscription_minutes_remaining |-> subscription_remaining,
              credits_minutes_remaining |-> credits_remaining,
              billing_profile_id |-> profile_id]
        ELSE [allowed |-> FALSE, reason |-> "quota_exceeded", remaining_minutes |-> 0,
              free_minutes_remaining |-> free_remaining,
              subscription_minutes_remaining |-> subscription_remaining,
              credits_minutes_remaining |-> credits_remaining,
              billing_profile_id |-> profile_id]

EmptyQuota(reason) ==
    [allowed |-> FALSE, reason |-> reason, remaining_minutes |-> 0,
     free_minutes_remaining |-> 0, subscription_minutes_remaining |-> 0,
     credits_minutes_remaining |-> 0, billing_profile_id |-> "none"]

\* candidate_profile_ids = [student, *parents]
CandidateProfileIds(student_id) == <<student_id>> \o ParentProfileIdsForStudent(student_id)

\* variant of Candidates: the free tier is included for every candidate
CandidatesAllFree(student_id) ==
    LET ids == CandidateProfileIds(student_id)
    IN  [i \in 1 .. Len(ids) |-> QuotaForProfile(ids[i], TRUE)]

\* candidates.append(_quota_for_profile(p, include_free_tier=(p == student_profile_id)))
Candidates(student_id) ==
    LET ids == CandidateProfileIds(student_id)
    IN  [i \in 1 .. Len(ids) |-> QuotaForProfile(ids[i], ids[i] = student_id)]

\* variant of MaxByRemaining: the first candidate, whatever the others hold
FirstCandidate(best, rest) == best

\* Python's max(list, key=remaining_minutes): the first of the greatest
RECURSIVE MaxByRemaining(_, _)
MaxByRemaining(best, rest) ==
    IF rest = <<>> THEN best
    ELSE IF Head(rest).remaining_minutes > best.remaining_minutes
         THEN MaxByRemaining(Head(rest), Tail(rest))
         ELSE MaxByRemaining(best, Tail(rest))

RECURSIVE AllowedOf(_)
AllowedOf(cands) ==
    IF cands = <<>> THEN <<>>
    ELSE IF Head(cands).allowed THEN <<Head(cands)>> \o AllowedOf(Tail(cands))
    ELSE AllowedOf(Tail(cands))

CheckSubscriptionQuota(student_id) ==
    IF student_id \notin Profiles THEN EmptyQuota("profile_not_found")
    ELSE LET candidates == Candidates(student_id)
             allowed_candidates == AllowedOf(candidates)
         IN  IF allowed_candidates # <<>>
             THEN MaxByRemaining(Head(allowed_candidates), Tail(allowed_candidates))
             ELSE IF candidates # <<>>
             THEN MaxByRemaining(Head(candidates), Tail(candidates))
             ELSE EmptyQuota("quota_exceeded")

\* the loop of lines 506-512: the first candidate with the strictly greatest credit remainder
RECURSIVE BestCreditProfile(_, _, _)
BestCreditProfile(ids, best_profile, best_minutes) ==
    IF ids = <<>> THEN best_profile
    ELSE LET remaining == CreditsRemainingForProfile(Head(ids))
         IN  IF remaining > best_minutes
             THEN BestCreditProfile(Tail(ids), Head(ids), remaining)
             ELSE BestCreditProfile(Tail(ids), best_profile, best_minutes)

\* variant of AnyActiveSubscription: only the student's own subscription is looked at
OnlyStudentSubscription(ids) == ActiveSubscriptionForProfile(ids[1]).status # "none"

AnyActiveSubscription(ids) ==
    \E i \in 1 .. Len(ids) : ActiveSubscriptionForProfile(ids[i]).status # "none"

RECURSIVE ConsumeFromEach(_, _, _)
ConsumeFromEach(cr, ids, minutes_consumed) ==
    IF ids = <<>> THEN cr
    ELSE ConsumeFromEach(ConsumeCredits(cr, Head(ids), minutes_consumed), Tail(ids), minutes_consumed)

\* variant of ConsumeQuotaMinutes: every candidate payer is charged
ConsumeQuotaFromAll(student_id, minutes_consumed) ==
    IF minutes_consumed <= 0 THEN credits
    ELSE LET ids == CandidateProfileIds(student_id)
         IN  IF AnyActiveSubscription(ids) THEN credits
             ELSE ConsumeFromEach(credits, ids, minutes_consumed)

\* consume_quota_minutes: the usage_credits table after the call
ConsumeQuotaMinutes(student_id, minutes_consumed) ==
    IF minutes_consumed <= 0 THEN credits
    ELSE LET ids == CandidateProfileIds(student_id)
         IN  IF AnyActiveSubscription(ids) THEN credits
             ELSE LET best == BestCreditProfile(ids, "none", 0)
                  IN  IF best # "none" THEN ConsumeCredits(credits, best, minutes_consumed)
                      ELSE credits

-----------------------------------------------------------------------------
(* Session lifecycle: main.py *)

\* variant of UpsertSummary: a plain INSERT, a new row on every write
InsertSummary(rows, s) ==
    Append(rows, [session_id |-> s,
                  rev |-> Cardinality({i \in 1 .. Len(rows) : rows[i].session_id = s}) + 1])

\* INSERT INTO session_summaries ... ON CONFLICT (session_id) DO UPDATE.
\* rev counts the writes of the row (1 on insert, +1 on each conflict update).
UpsertSummary(rows, s) ==
    IF \E i \in 1 .. Len(rows) : rows[i].session_id = s
    THEN [i \in 1 .. Len(rows) |->
            IF rows[i].session_id = s THEN [rows[i] EXCEPT !.rev = @ + 1] ELSE rows[i]]
    ELSE Append(rows, [session_id |-> s, rev |-> 1])

SummaryRows(s) == {i \in 1 .. Len(summaries) : summaries[i].session_id = s}

Rev(s) == IF SummaryRows(s) = {} THEN 0 ELSE summaries[CHOOSE i \in SummaryRows(s) : TRUE].rev

IdleCall == [pc |-> "idle", duration_seconds |-> 0, enrolment_id |-> NULL]


\* GREATEST(0, COALESCE(EXTRACT(EPOCH FROM (NOW() - started_at))::integer, 0))
DurationSeconds(started_at) == IF started_at = NULL THEN 0 ELSE Max(0, Now - started_at)

\* (duration_seconds + 59) // 60
MinutesConsumed(duration_seconds) == (duration_seconds + 59) \div 60

\* _create_session_sync: the gates in the order of the code; the facts the gates read
\* from tables this model does not hold are inputs
InsertPending(enrolment_id) ==
    LET sid == CHOOSE s \in SessionIds :
                 sessions[s].status = "none" /\ \A u \in SessionIds : u < s => sessions[u].status # "none"
    IN  sessions' = [sessions EXCEPT ![sid] = [NoSession EXCEPT !.status = "pending",
                                                                !.enrolment_id = enrolment_id]]

CreateSession ==
    /\ \E s \in SessionIds : sessions[s].status = "none"
    /\ UNCHANGED <<tick, endcall, summaries, snapshots, flags, links, subs, gate, worker, credits, lastCall, resp, cons>>
    /\ \E course_topic_valid \in BOOLEAN :
         IF ~course_topic_valid THEN UNCHANGED sessions
         ELSE \E restriction \in {"none", "daily_limit_reached", "weekly_limit_reached", "time_blocked"} :
           IF restriction # "none" THEN UNCHANGED sessions
           ELSE IF ~CheckSubscriptionQuota(Student).allowed THEN UNCHANGED sessions
           ELSE \E profile_gate \in {"none", "account_deleted", "terms_not_accepted", "consent_required"} :
             IF profile_gate # "none" THEN UNCHANGED sessions
             ELSE \E enrolment \in {"no_subject", "enrolled", "not_enrolled"} :
               IF enrolment = "not_enrolled" THEN UNCHANGED sessions
               ELSE \E room_ok \in BOOLEAN :
                 IF ~room_ok THEN UNCHANGED sessions
                 ELSE InsertPending(IF enrolment = "enrolled" THEN 1 ELSE NULL)

\* start_session_agent; agent_ok says whether _start_agent_join returned, which
\* StartSessionAgent below derives from its call of run_agent_session
StartAgent(s, student_id, agent_ok) ==
    /\ UNCHANGED <<tick, endcall, summaries, snapshots, flags, links, subs, gate, worker, credits, lastCall, resp, cons>>
    /\ IF sessions[s].status = "none" \/ student_id # Student
       THEN UNCHANGED sessions
       ELSE IF ~agent_ok
       THEN UNCHANGED sessions
       ELSE sessions' = [sessions EXCEPT ![s].status = "live", ![s].started_at = Now]

\* variant of EndBegin: the ended transition is left to the second transaction
EndBeginDeferred(s, student_id) ==
    /\ endcall[s].pc = "idle"
    /\ Rev(s) < MaxEnds
    /\ UNCHANGED <<tick, summaries, snapshots, flags, links, subs, gate, worker, credits, lastCall, cons>>
    /\ IF sessions[s].status = "none" \/ student_id # Student
       THEN /\ resp' = "not_found"
            /\ UNCHANGED <<sessions, endcall>>
       ELSE /\ endcall' = [endcall EXCEPT ![s] = [pc |-> "gen",
                               duration_seconds |-> DurationSeconds(sessions[s].started_at),
                               enrolment_id |-> sessions[s].enrolment_id]]
            /\ UNCHANGED <<sessions, resp>>

\* variant of EndBegin: the row is selected by id alone, without the comparison of
\* row[1] with student_id
EndBeginAnyStudent(s, student_id) ==
    /\ endcall[s].pc = "idle"
    /\ Rev(s) < MaxEnds
    /\ UNCHANGED <<tick, summaries, snapshots, flags, links, subs, gate, worker, credits, lastCall, cons>>
    /\ IF sessions[s].status = "none"
       THEN /\ resp' = "not_found"
            /\ UNCHANGED <<sessions, endcall>>
       ELSE LET d == DurationSeconds(sessions[s].started_at)
            IN  /\ sessions' = [sessions EXCEPT ![s].status = "ended",
                                                ![s].ended_at = Now,
                                                ![s].duration_seconds = d]
                /\ endcall' = [endcall EXCEPT ![s] = [pc |-> "gen", duration_seconds |-> d,
                                                      enrolment_id |-> sessions[s].enrolment_id]]
                /\ UNCHANGED resp

\* _end_session_sync, first transaction (lines 1757-1788)
EndBegin(s, student_id) ==
    /\ endcall[s].pc = "idle"
    /\ Rev(s) < MaxEnds
    /\ UNCHANGED <<tick, summaries, snapshots, flags, links, subs, gate, worker, credits, lastCall, cons>>
    /\ IF sessions[s].status = "none" \/ student_id # Student
       THEN /\ resp' = "not_found"
            /\ UNCHANGED <<sessions, endcall>>
       ELSE LET d == DurationSeconds(sessions[s].started_at)
            IN  /\ sessions' = [sessions EXCEPT ![s].status = "ended",
                                                ![s].ended_at = Now,
                                                ![s].duration_seconds = d]
                /\ endcall' = [endcall EXCEPT ![s] = [pc |-> "gen", duration_seconds |-> d,
                                                      enrolment_id |-> sessions[s].enrolment_id]]
                /\ UNCHANGED resp

\* lines 1790-1792: the transcript wait and the two model calls; either call may raise
EndGenerate(s, ok) ==
    /\ endcall[s].pc = "gen"
    /\ IF ok
       THEN endcall' = [endcall EXCEPT ![s].pc = "write"] /\ UNCHANGED resp
       ELSE endcall' = [endcall EXCEPT ![s] = IdleCall] /\ resp' = "gen_error"
    /\ UNCHANGED <<tick, sessions, summaries, snapshots, flags, links, subs, gate, worker, credits, lastCall, cons>>

\* second transaction (lines 1794-1869): one commit at the end; a statement that fails
\* raises out of the connection block, which rolls the transaction back
WriteOutcomes(enrolment_id, repeat) ==
    {"ok", "summary_fails"}
      \cup (IF enrolment_id # NULL THEN {"progress_fails"} ELSE {})
      \cup (IF enrolment_id # NULL /\ repeat > 0 THEN {"repeat_fails"} ELSE {})

EndWrite(s, repeat, outcome) ==
    /\ endcall[s].pc = "write"
    /\ outcome \in WriteOutcomes(endcall[s].enrolment_id, repeat)
    /\ UNCHANGED <<tick, links, subs, gate, worker, credits, lastCall, cons>>
    /\ IF outcome = "ok"
       THEN /\ summaries' = UpsertSummary(summaries, s)
            /\ sessions' = [sessions EXCEPT ![s].status = "summarized"]
            /\ snapshots' = IF endcall[s].enrolment_id # NULL THEN snapshots + 1 ELSE snapshots
            /\ flags' = IF endcall[s].enrolment_id # NULL THEN flags + repeat ELSE flags
            /\ endcall' = [endcall EXCEPT ![s].pc = "consume"]
            /\ UNCHANGED resp
       ELSE /\ UNCHANGED <<summaries, sessions, snapshots, flags>>
            /\ endcall' = [endcall EXCEPT ![s] = IdleCall]
            /\ resp' = outcome

\* line 1871, then return True
EndConsume(s) ==
    /\ endcall[s].pc = "consume"
    /\ credits' = ConsumeQuotaMinutes(Student, MinutesConsumed(endcall[s].duration_seconds))
    /\ endcall' = [endcall EXCEPT ![s] = IdleCall]
    /\ resp' = "ok"
    /\ UNCHANGED <<tick, sessions, summaries, snapshots, flags, links, subs, gate, worker, lastCall, cons>>

Tick ==
    /\ tick < MaxTicks
    /\ tick' = tick + 1
    /\ UNCHANGED <<sessions, endcall, summaries, snapshots, flags, links, subs, gate, worker, credits, lastCall, resp, cons>>

-----------------------------------------------------------------------------
(* The gates of create_session: main.py, _create_session_sync.  Times of day *)
(* are the strings "HH:MM" read as the number HHMM: zero-padded strings     *)
(* compare as these numbers do.                                              *)

Weekdays == 0 .. 6      \* datetime.weekday(): 0 = Monday ... 6 = Sunday

\* int(blocked.get("dayOfWeek") or -1): None and 0 are both falsy
BlockedDay(dayOfWeek) == IF dayOfWeek = NULL \/ dayOfWeek = 0 THEN -1 ELSE dayOfWeek

\* str(blocked.get("startTime") or "00:00")
TimeOrMidnight(time) == IF time = NULL THEN 0 ELSE time

\* _is_now_blocked; a blocked_times that is no list is the empty sequence here (FALSE)
IsNowBlocked(blocked_times, weekday, time) ==
    LET day_of_week == (weekday + 1) % 7
    IN  \E i \in DOMAIN blocked_times :
           /\ BlockedDay(blocked_times[i].dayOfWeek) = day_of_week
           /\ TimeOrMidnight(blocked_times[i].startTime) <= time
           /\ time <= TimeOrMidnight(blocked_times[i].endTime)

\* the loop over restriction_rows: the first raise, row by row
RECURSIVE RestrictionReason(_, _)
RestrictionReason(rows, g) ==
    IF rows = <<>> THEN "none"
    ELSE LET r == Head(rows)
         IN  IF r.max_daily_minutes # NULL /\ g.total_daily_minutes >= r.max_daily_minutes
             THEN "daily_limit_reached"
             ELSE IF r.max_weekly_minutes # NULL /\ g.total_weekly_minutes >= r.max_weekly_minutes
             THEN "weekly_limit_reached"
             ELSE IF IsNowBlocked(r.blocked_times, g.weekday, g.time)
             THEN "time_blocked"
             ELSE RestrictionReason(Tail(rows), g)

\* the first enrolment whose exam board fits: for row in enrolments ... break
RECURSIVE EnrolmentFor(_, _)
EnrolmentFor(enrolments, exam_board_id) ==
    IF enrolments = <<>> THEN NULL
    ELSE IF exam_board_id = NULL \/ Head(enrolments).exam_board_id = exam_board_id
    THEN Head(enrolments).id
    ELSE EnrolmentFor(Tail(enrolments), exam_board_id)

\* variant of CreateSessionReason: the quota is checked before the restrictions
QuotaFirstReason(g, quota) ==
    IF ~g.course_ok THEN "invalid_course_topic"
    ELSE IF ~quota.allowed THEN quota.reason
    ELSE IF RestrictionReason(g.restrictions, g) # "none"
    THEN RestrictionReason(g.restrictions, g)
    ELSE IF g.profile.deleted_at # NULL THEN "account_deleted"
    ELSE IF g.profile.terms_accepted_at = NULL THEN "terms_not_accepted"
    ELSE IF g.student.age < 13 /\ g.student.consent_granted_at = NULL THEN "consent_required"
    ELSE IF g.subject_id # NULL /\ EnrolmentFor(g.enrolments, g.exam_board_id) = NULL
    THEN "not_enrolled"
    ELSE "none"

\* the detail of the first HTTPException that _create_session_sync raises before it
\* builds the room, "none" if it raises none; quota is check_subscription_quota's result
CreateSessionReason(g, quota) ==
    IF ~g.course_ok THEN "invalid_course_topic"
    ELSE IF RestrictionReason(g.restrictions, g) # "none"
    THEN RestrictionReason(g.restrictions, g)
    ELSE IF ~quota.allowed THEN quota.reason
    ELSE IF g.profile.deleted_at # NULL THEN "account_deleted"
    ELSE IF g.profile.terms_accepted_at = NULL THEN "terms_not_accepted"
    ELSE IF g.student.age < 13 /\ g.student.consent_granted_at = NULL THEN "consent_required"
    ELSE IF g.subject_id # NULL /\ EnrolmentFor(g.enrolments, g.exam_board_id) = NULL
    THEN "not_enrolled"
    ELSE "none"

\* _ensure_room: create_room answered, or it raised and list_rooms shows the room
EnsureRoom(created, listed) == created \/ listed

\* what the request did about the room: "none" when _ensure_room was not called
RoomOutcome(reason, room_ok) ==
    IF reason # "none" THEN "none" ELSE IF room_ok THEN "confirmed" ELSE "failed"

\* variant of CreateSessionSync: the row is inserted before the room is ensured
CreateSessionInsertFirst(room_ok) ==
    LET quota == CheckSubscriptionQuota(Student)
        reason == CreateSessionReason(gate, quota)
    IN  /\ \E s \in SessionIds : sessions[s].status = "none"
        /\ lastCall' = [op |-> "create", world |-> gate, quota |-> quota,
                        room |-> RoomOutcome(reason, room_ok), sessions_before |-> sessions]
        /\ IF reason # "none"
           THEN resp' = reason /\ UNCHANGED sessions
           ELSE /\ resp' = IF room_ok THEN "ok" ELSE "room_error"
                /\ InsertPending(IF gate.subject_id = NULL THEN NULL
                                 ELSE EnrolmentFor(gate.enrolments, gate.exam_board_id))
        /\ UNCHANGED <<tick, endcall, summaries, snapshots, flags, links, subs, gate, worker,
                       credits, cons>>

\* _create_session_sync on the student's request; room_ok: _ensure_room returns
CreateSessionSync(room_ok) ==
    LET quota == CheckSubscriptionQuota(Student)
        reason == CreateSessionReason(gate, quota)
    IN  /\ \E s \in SessionIds : sessions[s].status = "none"
        /\ lastCall' = [op |-> "create", world |-> gate, quota |-> quota,
                        room |-> RoomOutcome(reason, room_ok), sessions_before |-> sessions]
        /\ IF reason # "none"
           THEN resp' = reason /\ UNCHANGED sessions
           ELSE IF ~room_ok
           THEN resp' = "room_error" /\ UNCHANGED sessions
           ELSE /\ resp' = "ok"
                /\ InsertPending(IF gate.subject_id = NULL THEN NULL
                                 ELSE EnrolmentFor(gate.enrolments, gate.exam_board_id))
        /\ UNCHANGED <<tick, endcall, summaries, snapshots, flags, links, subs, gate, worker,
                       credits, cons>>

\* variant of GrantConsent: linking a parent leaves the consent columns alone
KeepConsent(student, parent_id) == student

\* UPDATE students SET consent_granted_at = NOW(), consent_granted_by_parent_id = parent
\* WHERE consent_granted_at IS NULL, issued if age < 13
GrantConsent(student, parent_id) ==
    IF student.age < 13 /\ student.consent_granted_at = NULL
    THEN [student EXCEPT !.consent_granted_at = Now, !.consent_granted_by_parent_id = parent_id]
    ELSE student

\* _parent_link_code_sync: a parent redeems an invite code
ParentLinkCode(parent_id, code) ==
    /\ UNCHANGED <<tick, sessions, endcall, summaries, snapshots, flags, subs, worker, credits, cons>>
    /\ lastCall' = [op |-> "link", parent_id |-> parent_id, code |-> code]
    /\ IF code = ""
       THEN resp' = "invite_code_required" /\ UNCHANGED <<links, gate>>
       ELSE IF ~(/\ gate.invite.code = code
                 /\ gate.invite.used_at = NULL
                 /\ gate.invite.expires_at > Now)
       THEN resp' = "invalid_or_expired_invite_code" /\ UNCHANGED <<links, gate>>
       ELSE /\ links' = IF parent_id \in Range(links) THEN links ELSE Append(links, parent_id)
            /\ gate' = [gate EXCEPT !.invite.used_at = Now,
                                    !.student = GrantConsent(gate.student, parent_id)]
            /\ resp' = "linked"

-----------------------------------------------------------------------------
(* Authentication of a request: main.py, _validate_internal_api_key and      *)
(* _get_user_id_from_bearer, and the three profile endpoints that use it.    *)
(* A header that is absent is "none"; the Authorization header is its scheme *)
(* and its token; gate.env holds AGENT_INTERNAL_API_KEY ("" when unset) and  *)
(* whether the Supabase settings are present.                                *)

Unauthorized == [status |-> "401", user_id |-> "none"]

\* GET {SUPABASE_URL}/auth/v1/user: the id of the token's user, "none" for an HTTPError
SupabaseUser(token) ==
    CASE token = "token-s" -> Student
      [] token = "token-p1" -> "p1"
      [] OTHER -> "none"

GetUserIdFromBearer(env, authorization) ==
    IF authorization.scheme # "Bearer" THEN Unauthorized
    ELSE IF ~env.supabase_configured THEN [status |-> "500", user_id |-> "none"]
    ELSE IF SupabaseUser(authorization.token) = "none" THEN Unauthorized
    ELSE [status |-> "ok", user_id |-> SupabaseUser(authorization.token)]

\* variant of ValidateInternalApiKey: the key is compared without asking whether one is set
ValidateAnyEqualKey(env, x_internal_api_key, authorization, expected_user_id) ==
    IF x_internal_api_key = env.internal_api_key
    THEN [status |-> "ok", user_id |-> expected_user_id]
    ELSE LET bearer == GetUserIdFromBearer(env, authorization)
         IN  IF bearer.status # "ok" THEN bearer
             ELSE IF expected_user_id # "none" /\ bearer.user_id # expected_user_id
             THEN [status |-> "403", user_id |-> "none"]
             ELSE bearer

\* _validate_internal_api_key: expected_user_id is "none" when the caller passes none
ValidateInternalApiKey(env, x_internal_api_key, authorization, expected_user_id) ==
    IF env.internal_api_key # "" /\ x_internal_api_key = env.internal_api_key
    THEN [status |-> "ok", user_id |-> expected_user_id]
    ELSE LET bearer == GetUserIdFromBearer(env, authorization)
         IN  IF bearer.status # "ok" THEN bearer
             ELSE IF expected_user_id # "none" /\ bearer.user_id # expected_user_id
             THEN [status |-> "403", user_id |-> "none"]
             ELSE bearer

AuthRequest(op, x_internal_api_key, authorization) ==
    [op |-> op, x_internal_api_key |-> x_internal_api_key, authorization |-> authorization,
     before |-> gate]

\* PATCH /api/profile/terms-accept
TermsAccept(x_internal_api_key, authorization) ==
    /\ lastCall' = AuthRequest("terms_accept", x_internal_api_key, authorization)
    /\ UNCHANGED <<tick, sessions, endcall, summaries, snapshots, flags, links, subs, worker,
                   credits, cons>>
    /\ LET v == ValidateInternalApiKey(gate.env, x_internal_api_key, authorization, "none")
       IN  IF v.status # "ok" THEN resp' = v.status /\ UNCHANGED gate
           ELSE IF v.user_id = "none" THEN resp' = "401" /\ UNCHANGED gate
           ELSE /\ resp' = "ok"
                /\ gate' = IF v.user_id = Student /\ gate.profile.terms_accepted_at = NULL
                           THEN [gate EXCEPT !.profile.terms_accepted_at = Now]
                           ELSE gate

\* GET /api/student/consent-status
ConsentStatus(studentId, x_internal_api_key, authorization) ==
    /\ lastCall' = AuthRequest("consent_status", x_internal_api_key, authorization)
    /\ UNCHANGED <<tick, sessions, endcall, summaries, snapshots, flags, links, subs, worker,
                   credits, cons, gate>>
    /\ LET v == ValidateInternalApiKey(gate.env, x_internal_api_key, authorization, studentId)
       IN  resp' = v.status

\* DELETE /api/profile: the profiles row and the parents row of the user
DeleteProfile(x_internal_api_key, authorization) ==
    /\ lastCall' = AuthRequest("delete_profile", x_internal_api_key, authorization)
    /\ UNCHANGED <<tick, sessions, endcall, summaries, snapshots, flags, links, subs, worker,
                   credits, cons>>
    /\ LET v == ValidateInternalApiKey(gate.env, x_internal_api_key, authorization, "none")
       IN  IF v.status # "ok" THEN resp' = v.status /\ UNCHANGED gate
           ELSE IF v.user_id = "none" THEN resp' = "401" /\ UNCHANGED gate
           ELSE /\ resp' = "ok"
                /\ gate' = IF v.user_id = Student /\ gate.profile.deleted_at = NULL
                           THEN [gate EXCEPT !.profile.deleted_at = Now]
                           ELSE IF v.user_id = "p1" /\ gate.parent.deleted_at = NULL
                           THEN [gate EXCEPT !.parent.deleted_at = Now]
                           ELSE gate

-----------------------------------------------------------------------------
(* The agent task: agent_worker.py, run_agent_session.  worker holds its     *)
(* locals (transcript_items, _silence_state, the persist tasks queued on     *)
(* persist_lock, the watchdog task), the stored transcript row, and what has *)
(* happened so far (failures, nudges, spoke, replied).                       *)

\* variant of UpsertTranscript: the snapshot is added to the stored rows
InsertTranscript(stored, snapshot) == stored \o snapshot

\* upsert_transcript: ON CONFLICT (session_id) DO UPDATE SET transcript_json = EXCLUDED...
UpsertTranscript(stored, snapshot) == snapshot

\* _on_conversation_item for a message of the given role; a message without text, or of
\* another role than user and assistant, is dropped
OnConversationItem(w, role, has_text) ==
    IF ~has_text \/ role \notin {"user", "assistant"} THEN w
    ELSE [w EXCEPT !.last_student = IF role = "user" THEN w.now ELSE @,
                   !.last_agent = IF role = "assistant" THEN w.now ELSE @,
                   !.items = Append(@, [speaker |-> IF role = "user" THEN "Student" ELSE "TutorBot",
                                        n |-> Len(w.items) + 1]),
                   !.tasks = Append(@, [pc |-> "wait", snapshot |-> <<>>])]

\* an utterance of the student or a reply of the tutor completes while the session is open
ConversationItem(role, has_text) ==
    /\ worker.pc = "running"
    /\ Len(worker.items) < MaxUtterances
    /\ worker' = [OnConversationItem(worker, role, has_text) EXCEPT
                     !.nudges = IF has_text /\ role \in {"user", "assistant"} THEN 0 ELSE @,
                     !.spoke = IF has_text /\ role = "assistant" THEN TRUE ELSE @,
                     !.replied = IF ~has_text THEN @
                                 ELSE IF role = "user" THEN TRUE
                                 ELSE IF role = "assistant" THEN FALSE ELSE @]
    /\ UNCHANGED <<tick, sessions, endcall, summaries, snapshots, flags, links, subs, gate,
                   credits, lastCall, resp, cons>>

\* _persist_transcript_snapshot: the task at the head of the lock's queue enters
\* async with persist_lock and takes snapshot = list(transcript_items)
PersistAcquire ==
    /\ worker.tasks # <<>>
    /\ worker.tasks[1].pc = "wait"
    /\ worker' = [worker EXCEPT !.tasks[1] = [pc |-> "write", snapshot |-> worker.items]]
    /\ UNCHANGED <<tick, sessions, endcall, summaries, snapshots, flags, links, subs, gate,
                   credits, lastCall, resp, cons>>

\* its upsert_transcript runs in the thread; an exception is swallowed; the lock is released
PersistWrite(ok) ==
    /\ worker.tasks # <<>>
    /\ worker.tasks[1].pc = "write"
    /\ worker' = [worker EXCEPT
                     !.stored = IF ok THEN UpsertTranscript(@, worker.tasks[1].snapshot) ELSE @,
                     !.failures = IF ok THEN @ ELSE @ + 1,
                     !.tasks = Tail(@)]
    /\ UNCHANGED <<tick, sessions, endcall, summaries, snapshots, flags, links, subs, gate,
                   credits, lastCall, resp, cons>>

\* the session closes: finally cancels the watchdog and hands list(transcript_items) to
\* upsert_transcript in a thread, without taking persist_lock
SessionClose ==
    /\ worker.pc = "running"
    /\ worker' = [worker EXCEPT !.pc = "closing",
                                !.watchdog = [pc |-> "cancelled", wake_at |-> 0],
                                !.final = [pc |-> "write", snapshot |-> worker.items]]
    /\ UNCHANGED <<tick, sessions, endcall, summaries, snapshots, flags, links, subs, gate,
                   credits, lastCall, resp, cons>>

\* the final upsert_transcript runs; an exception leaves the finally block
FinalWrite(ok) ==
    /\ worker.pc = "closing"
    /\ worker.final.pc = "write"
    /\ worker' = [worker EXCEPT
                     !.stored = IF ok THEN UpsertTranscript(@, worker.final.snapshot) ELSE @,
                     !.failures = IF ok THEN @ ELSE @ + 1,
                     !.final.pc = IF ok THEN "done" ELSE "failed",
                     !.pc = "closed"]
    /\ UNCHANGED <<tick, sessions, endcall, summaries, snapshots, flags, links, subs, gate,
                   credits, lastCall, resp, cons>>

\* loop.time() advances by one poll interval; the watchdog's sleep(0.5) is over no later
LoopTime ==
    /\ worker.pc \in {"running", "closing"}
    /\ worker.now < MaxLoopTime
    /\ worker.watchdog.pc = "sleep" => worker.now < worker.watchdog.wake_at
    /\ worker' = [worker EXCEPT !.now = @ + 1]
    /\ UNCHANGED <<tick, sessions, endcall, summaries, snapshots, flags, links, subs, gate,
                   credits, lastCall, resp, cons>>

\* if elapsed >= _silence_nudge and last_agent > last_student
NudgeDue(w) ==
    /\ w.last_agent # NULL
    /\ w.now - w.last_agent >= SilenceNudge
    /\ w.last_agent > w.last_student

\* one iteration of _silence_watchdog after its sleep: disarm and start session.say, or
\* go back to sleep
WatchdogPoll ==
    /\ worker.watchdog.pc = "sleep"
    /\ worker.now >= worker.watchdog.wake_at
    /\ worker' = IF NudgeDue(worker)
                 THEN [worker EXCEPT !.last_agent = NULL,
                                     !.watchdog = [pc |-> "say", wake_at |-> 0],
                                     !.nudges = @ + 1]
                 ELSE [worker EXCEPT !.watchdog.wake_at = worker.now + 1]
    /\ UNCHANGED <<tick, sessions, endcall, summaries, snapshots, flags, links, subs, gate,
                   credits, lastCall, resp, cons>>

\* session.say of the prompt returns: spoken, the prompt is a conversation item of the
\* assistant like every utterance of the session; or it raised, which is passed over
SayDone(spoken) ==
    /\ worker.watchdog.pc = "say"
    /\ spoken => Len(worker.items) < MaxUtterances
    /\ worker' = [(IF spoken THEN OnConversationItem(worker, "assistant", TRUE) ELSE worker)
                     EXCEPT !.watchdog = [pc |-> "sleep", wake_at |-> worker.now + 1]]
    /\ UNCHANGED <<tick, sessions, endcall, summaries, snapshots, flags, links, subs, gate,
                   credits, lastCall, resp, cons>>

\* the locals of run_agent_session when the watchdog task has been created; loop.time()
\* is a positive monotonic clock, last_student starts at 0.0
RunningWorker ==
    [pc |-> "running", now |-> 1, last_agent |-> NULL, last_student |-> 0,
     items |-> <<>>, tasks |-> <<>>, final |-> [pc |-> "none", snapshot |-> <<>>],
     stored |-> <<>>, failures |-> 0, watchdog |-> [pc |-> "sleep", wake_at |-> 2],
     nudges |-> 0, spoke |-> FALSE, replied |-> FALSE]

-----------------------------------------------------------------------------
(* The transcript wait of end_session: main.py, _wait_for_transcript_text_sync *)
(* and _generate_summary_and_progress_async.  The transcript_text column is   *)
(* the join of the stored items, one line per item: it is blank exactly when  *)
(* the row is missing or holds no item, and is modelled by the items.         *)

MaxAttempts == 6

\* SELECT transcript_text FROM session_transcripts; str(row[0]) if row and row[0] else ""
TranscriptText(stored) == stored

\* transcript_text.strip() is empty
IsBlank(transcript_text) == transcript_text = <<>>

\* variant of AfterRead: the sleep is taken after every blank read
AfterReadSleepAlways(attempt, transcript_text) ==
    IF ~IsBlank(transcript_text) THEN "return_text"
    ELSE IF attempt < MaxAttempts THEN "sleep"
    ELSE "return_empty"

\* the body of the loop after the read of attempt (0-based)
AfterRead(attempt, transcript_text) ==
    IF ~IsBlank(transcript_text) THEN "return_text"
    ELSE IF attempt < MaxAttempts - 1 THEN "sleep"
    ELSE "return_empty"

WaitCall(call, pc, attempt, seen, sleeps, transcript_text) ==
    [pc |-> pc, duration_seconds |-> call.duration_seconds, enrolment_id |-> call.enrolment_id,
     attempt |-> attempt, seen |-> seen, sleeps |-> sleeps, transcript_text |-> transcript_text,
     summary_input |-> <<>>, progress_input |-> <<>>]

\* one read of the loop; the first follows the commit of the first transaction
TranscriptRead(s) ==
    /\ endcall[s].pc \in {"gen", "wait"}
    /\ LET call == endcall[s]
           attempt == IF call.pc = "gen" THEN 0 ELSE call.attempt
           sleeps == IF call.pc = "gen" THEN 0 ELSE call.sleeps
           transcript_text == TranscriptText(worker.stored)
           seen == (IF call.pc = "gen" THEN <<>> ELSE call.seen) \o <<transcript_text>>
           after == AfterRead(attempt, transcript_text)
       IN  endcall' = [endcall EXCEPT ![s] =
              IF after = "return_text" THEN WaitCall(call, "generate", attempt, seen, sleeps, transcript_text)
              ELSE IF after = "sleep" THEN WaitCall(call, "sleep", attempt, seen, sleeps, <<>>)
              ELSE WaitCall(call, "generate", attempt, seen, sleeps, <<>>)]
    /\ UNCHANGED <<tick, sessions, summaries, snapshots, flags, links, subs, gate, worker,
                   credits, lastCall, resp, cons>>

\* time.sleep(delay_ms / 1000), then the next attempt
TranscriptSleep(s) ==
    /\ endcall[s].pc = "sleep"
    /\ endcall' = [endcall EXCEPT ![s].pc = "wait", ![s].attempt = @ + 1, ![s].sleeps = @ + 1]
    /\ UNCHANGED <<tick, sessions, summaries, snapshots, flags, links, subs, gate, worker,
                   credits, lastCall, resp, cons>>

\* asyncio.run(_generate_summary_and_progress_async(transcript_text)): both threads are
\* handed the text the wait returned; either call may raise
GenerateSummaryAndProgress(s, ok) ==
    /\ endcall[s].pc = "generate"
    /\ IF ok
       THEN /\ endcall' = [endcall EXCEPT ![s].pc = "write",
                                          ![s].summary_input = endcall[s].transcript_text,
                                          ![s].progress_input = endcall[s].transcript_text]
            /\ UNCHANGED resp
       ELSE endcall' = [endcall EXCEPT ![s] = IdleCall] /\ resp' = "gen_error"
    /\ UNCHANGED <<tick, sessions, summaries, snapshots, flags, links, subs, gate, worker,
                   credits, lastCall, cons>>

-----------------------------------------------------------------------------
(* Calls between the modules.  A Python call binds its arguments to the      *)
(* callee's parameters before the body runs and raises TypeError when it     *)
(* cannot: too many positional arguments, a keyword the callee does not      *)
(* declare, a parameter given twice, or a parameter without a default left   *)
(* unbound.  A signature lists the positional-or-keyword parameters in order *)
(* (none of them has a default here), the keyword-only parameters without a  *)
(* default (required) and those with one (optional).                         *)

CallBinds(sig, npos, kwargs) ==
    /\ npos <= Len(sig.positional)
    /\ \A i \in 1 .. Len(sig.positional) :
          IF i <= npos THEN sig.positional[i] \notin kwargs ELSE sig.positional[i] \in kwargs
    /\ kwargs \subseteq Range(sig.positional) \cup sig.required \cup sig.optional
    /\ sig.required \subseteq kwargs

\* prompts.py: def build_system_prompt(course_name, topic_name, references, *, tutor_name,
\* personality_prompt, repeat_flags, recommended_focus)
BuildSystemPromptSig ==
    [positional |-> <<"course_name", "topic_name", "references">>,
     required |-> {"tutor_name", "personality_prompt", "repeat_flags", "recommended_focus"},
     optional |-> {}]

\* agent_worker.py: async def run_agent_session(room_name, token, session_id, course_id,
\* topic_id, *, agent_openai_model=None, deepgram_stt_model=None, deepgram_tts_model=None,
\* silence_nudge_after_s=None)
RunAgentSessionSig ==
    [positional |-> <<"room_name", "token", "session_id", "course_id", "topic_id">>,
     required |-> {},
     optional |-> {"agent_openai_model", "deepgram_stt_model", "deepgram_tts_model",
                   "silence_nudge_after_s"}]

\* the keywords of the call run_agent_session(...) in _start_agent_join
StartAgentJoinKwargs ==
    {"room_name", "token", "session_id", "course_id", "topic_id", "student_id", "enrolment_id",
     "tutor_name", "personality_prompt", "tutor_voice_model", "tutor_tts_speed", "repeat_flags",
     "recommended_focus", "agent_openai_model", "deepgram_stt_model", "deepgram_tts_model",
     "silence_nudge_after_s"}

-----------------------------------------------------------------------------
(* The per-turn hook: agent_worker.py, TutorAgent.on_user_turn_completed,    *)
(* with rag.py, retrieve_chunks.  A chunk row carries its course, its topic  *)
(* and its distance to the embedding of the query.                           *)

RetrieveK == 5

RECURSIVE OrderByDistance(_)
OrderByDistance(rows) ==
    IF rows = <<>> THEN <<>>
    ELSE LET i == CHOOSE j \in DOMAIN rows : \A l \in DOMAIN rows :
                      rows[j].distance < rows[l].distance \/ (rows[j].distance = rows[l].distance /\ j <= l)
         IN  <<rows[i]>> \o OrderByDistance(SubSeq(rows, 1, i - 1) \o SubSeq(rows, i + 1, Len(rows)))

\* retrieve_chunks: WHERE c.course_id = %s AND c.topic_id = %s ORDER BY distance LIMIT k
RetrieveChunks(chunks, course_id, topic_id, k) ==
    LET scoped == SelectSeq(chunks, LAMBDA c : c.course_id = course_id /\ c.topic_id = topic_id)
        ordered == OrderByDistance(scoped)
    IN  SubSeq(ordered, 1, Min(k, Len(ordered)))

\* _format_references: the fallback text when there is no chunk, else one block per chunk
FormatReferences(chunks) ==
    IF chunks = <<>>
    THEN [text |-> "No strong matches found. Ask clarifying questions.", chunk_ids |-> <<>>]
    ELSE [text |-> "chunks", chunk_ids |-> [i \in DOMAIN chunks |-> chunks[i].chunk_id]]

NoContent == [latest_user |-> "", references |-> [text |-> "", chunk_ids |-> <<>>]]

\* an item of the chat context; n is its identity
ChatMessage(role, n) == [role |-> role, n |-> n, content |-> NoContent]

\* llm.ChatMessage(role="system", content=[system_prompt])
SystemMessage(latest_user, references) ==
    [role |-> "system", n |-> 0, content |-> [latest_user |-> latest_user, references |-> references]]

\* on_user_turn_completed(turn_ctx, new_message): what it raises and turn_ctx.items after it
OnUserTurnCompleted(items, latest_user, chunks, embed_ok, course_id, topic_id) ==
    IF ~embed_ok THEN [raised |-> "EmbeddingError", items |-> items]
    ELSE LET retrieved == RetrieveChunks(chunks, course_id, topic_id, RetrieveK)
             references == FormatReferences(retrieved)
         IN  IF ~CallBinds(BuildSystemPromptSig, 3, {})
             THEN [raised |-> "TypeError", items |-> items]
             ELSE [raised |-> "none",
                   items |-> <<SystemMessage(latest_user, references)>>
                             \o SelectSeq(items, LAMBDA item : item.role \notin {"system", "developer"})]

\* the student's turn completes with the text latest_user; embedding_for answers or raises
UserTurnCompleted(latest_user, embed_ok) ==
    /\ worker.pc = "turns"
    /\ worker.turns < MaxTurns
    /\ LET r == OnUserTurnCompleted(worker.items, latest_user, worker.chunks, embed_ok,
                                    worker.course_id, worker.topic_id)
       IN  worker' = [worker EXCEPT !.turns = @ + 1,
                                    !.before = worker.items,
                                    !.items = r.items,
                                    !.raised = r.raised,
                                    !.latest_user = latest_user,
                                    !.embed_ok = embed_ok]
    /\ UNCHANGED <<tick, sessions, endcall, summaries, snapshots, flags, links, subs, gate,
                   credits, lastCall, resp, cons>>

\* the agent of a session on course 1, topic 1, before its first turn
TurnWorker(items, chunks) ==
    [pc |-> "turns", course_id |-> 1, topic_id |-> 1, items |-> items, chunks |-> chunks,
     turns |-> 0, before |-> <<>>, raised |-> "none", latest_user |-> "", embed_ok |-> TRUE]

-----------------------------------------------------------------------------
(* The start of the agent: main.py, start_session_agent and                  *)
(* _start_agent_join                                                         *)

\* _start_agent_join: the HTTPException it raises, the TypeError of the call of
\* run_agent_session, or "task" when asyncio.create_task has taken the coroutine
StartAgentJoin(credentials_ok, config_ok) ==
    IF ~credentials_ok THEN "livekit_credentials_missing"
    ELSE IF ~config_ok THEN "missing_agent_env_vars"
    ELSE IF ~CallBinds(RunAgentSessionSig, 0, StartAgentJoinKwargs) THEN "TypeError"
    ELSE "task"

\* start_session_agent, for sessions rows that carry their student
StartSessionAgent(s, student_id, credentials_ok, config_ok) ==
    /\ worker.pc \in {"none", "task"}
    /\ worker.starts < MaxStarts
    /\ UNCHANGED <<tick, endcall, summaries, snapshots, flags, links, subs, gate, credits, cons>>
    /\ lastCall' = [op |-> "start_agent", session_id |-> s, student_id |-> student_id,
                    credentials_ok |-> credentials_ok, config_ok |-> config_ok]
    /\ IF sessions[s].status = "none" \/ sessions[s].student_id # student_id
       THEN /\ resp' = "session_not_found"
            /\ worker' = [worker EXCEPT !.starts = @ + 1]
            /\ UNCHANGED sessions
       ELSE LET join == StartAgentJoin(credentials_ok, config_ok)
            IN  IF join # "task"
                THEN /\ resp' = join
                     /\ worker' = [worker EXCEPT !.starts = @ + 1]
                     /\ UNCHANGED sessions
                ELSE /\ resp' = "ok"
                     /\ worker' = [worker EXCEPT !.starts = @ + 1, !.pc = "task"]
                     /\ sessions' = [sessions EXCEPT ![s].status = "live", ![s].started_at = Now]

-----------------------------------------------------------------------------
(* Initial database contents *)

PlanRow == [status |-> "active", period_start |-> ClockAt(1), period_end |-> ClockAt(MaxTicks + 1),
            monthly_minutes |-> PlanMinutes]

NoPlanRow == [status |-> "past_due", period_start |-> NULL, period_end |-> NULL,
              monthly_minutes |-> NULL]

CanceledRow == [status |-> "canceled", period_start |-> ClockAt(1), period_end |-> ClockAt(MaxTicks + 1),
                monthly_minutes |-> PlanMinutes]

Grant(profile_id, minutes, expires_at, created_at) ==
    [profile_id |-> profile_id, minutes_remaining |-> minutes,
     expires_at |-> expires_at, created_at |-> created_at]

NoCall == [op |-> "none"]

Restriction(max_daily_minutes, max_weekly_minutes, blocked_times) ==
    [max_daily_minutes |-> max_daily_minutes, max_weekly_minutes |-> max_weekly_minutes,
     blocked_times |-> blocked_times]

Window(dayOfWeek) == [dayOfWeek |-> dayOfWeek, startTime |-> 900, endTime |-> 1700]

InviteCode(expires_at) ==
    [code |-> "ABC", student_id |-> Student, used_at |-> NULL, expires_at |-> expires_at]

\* a world in which every gate lets the student through
OpenGate ==
    [course_ok |-> TRUE, restrictions |-> <<>>, total_daily_minutes |-> 0,
     total_weekly_minutes |-> 0, weekday |-> 0, time |-> 0,
     profile |-> [terms_accepted_at |-> 0, deleted_at |-> NULL],
     student |-> [age |-> 13, consent_granted_at |-> NULL, consent_granted_by_parent_id |-> "none"],
     subject_id |-> NULL, exam_board_id |-> NULL, enrolments |-> <<>>,
     invite |-> InviteCode(0)]

NoWorker == [pc |-> "none"]

Consumers == {1, 2}

IdleConsumer(minutes) ==
    [pc |-> "idle", minutes |-> minutes, rows |-> <<>>, remaining |-> 0,
     locked |-> {}, deducted |-> [g \in GrantIds |-> 0]]

IdleConsumers == [c \in Consumers |-> IdleConsumer(0)]

LifecycleCredits ==
    { [g \in GrantIds |-> NoGrant],
      [g \in GrantIds |-> IF g = 1 THEN Grant(Student, MaxCredit, NULL, 2)
                          ELSE IF g = 2 THEN Grant(Student, 1, NULL, 1)
                          ELSE NoGrant] }

Init ==
    /\ tick = 0
    /\ sessions = [s \in SessionIds |-> NoSession]
    /\ endcall = [s \in SessionIds |-> IdleCall]
    /\ summaries = <<>>
    /\ snapshots = 0
    /\ flags = 0
    /\ links = <<"p1">>
    /\ subs \in {[p \in Profiles |-> <<>>], [p \in Profiles |-> IF p = "p1" THEN <<PlanRow>> ELSE <<>>]}
    /\ credits \in LifecycleCredits
    /\ lastCall = NoCall
    /\ resp = "none"
    /\ cons = IdleConsumers
    /\ gate = OpenGate
    /\ worker = NoWorker

Next ==
    \/ Tick
    \/ CreateSession
    \/ \E s \in SessionIds, student_id \in {Student, Stranger}, agent_ok \in BOOLEAN :
         StartAgent(s, student_id, agent_ok)
    \/ \E s \in SessionIds, student_id \in {Student, Stranger} : EndBegin(s, student_id)
    \/ \E s \in SessionIds, ok \in BOOLEAN : EndGenerate(s, ok)
    \/ \E s \in SessionIds, repeat \in 0 .. MaxRepeat, outcome \in {"ok", "summary_fails", "progress_fails", "repeat_fails"} :
         EndWrite(s, repeat, outcome)
    \/ \E s \in SessionIds : EndConsume(s)

Spec == Init /\ [][Next]_vars

-----------------------------------------------------------------------------
(* The ledger interface called on a database of any contents:               *)
(* check_quota(student_id) and consume_quota(student_id, minutes)           *)

LedgerTick == MaxTicks - 1

PeriodStart == ClockAt(1)

HistoryRow(status, started_at, ended_at, duration_seconds) ==
    [status |-> status, started_at |-> started_at, ended_at |-> ended_at,
     duration_seconds |-> duration_seconds, enrolment_id |-> NULL]

\* session rows the lifecycle handlers leave behind
HistoryShapes(i) ==
    IF i = 1
    THEN { NoSession,
           HistoryRow("pending", NULL, NULL, NULL),
           HistoryRow("live", PeriodStart, NULL, NULL),
           HistoryRow("ended", PeriodStart, ClockAt(2), ClockAt(2) - PeriodStart),
           HistoryRow("summarized", 0, TickStep(0), TickStep(0)),
           HistoryRow("summarized", PeriodStart, ClockAt(2), ClockAt(2) - PeriodStart) }
    ELSE { NoSession,
           HistoryRow("summarized", PeriodStart, ClockAt(2), ClockAt(2) - PeriodStart) }

TrialRow == [PlanRow EXCEPT !.status = "trialing"]

SubHistories(p) ==
    IF p = Student THEN {<<>>, <<PlanRow>>, <<CanceledRow, NoPlanRow>>}
    ELSE IF p = "p1" THEN {<<>>, <<TrialRow>>}
    ELSE {<<>>, <<CanceledRow>>}

GrantChoices(g) ==
    IF g = 1
    THEN {NoGrant, Grant(Student, MaxCredit, ClockAt(LedgerTick), 2)}
           \cup {Grant(p, MaxCredit, NULL, 2) : p \in Profiles}
    ELSE IF g = 2
    THEN {NoGrant} \cup {Grant(p, 1, NULL, 1) : p \in Profiles}
    ELSE {NoGrant, Grant(Student, 1, NULL, g)}

LinkOrders == {<<>>, <<"p1">>, <<"p2">>, <<"p1", "p2">>, <<"p2", "p1">>}

InitLedger ==
    /\ tick = LedgerTick
    /\ sessions \in {f \in [1 .. MaxHistory -> UNION {HistoryShapes(i) : i \in 1 .. MaxHistory}] :
                        \A i \in 1 .. MaxHistory : f[i] \in HistoryShapes(i)}
    /\ endcall = [s \in SessionIds |-> IdleCall]
    /\ summaries = <<>>
    /\ snapshots = 0
    /\ flags = 0
    /\ links \in LinkOrders
    /\ subs \in {f \in [Profiles -> UNION {SubHistories(p) : p \in Profiles}] :
                    \A p \in Profiles : f[p] \in SubHistories(p)}
    /\ credits \in {f \in [GrantIds -> UNION {GrantChoices(g) : g \in GrantIds}] :
                       \A g \in GrantIds : f[g] \in GrantChoices(g)}
    /\ lastCall = NoCall
    /\ resp = "none"
    /\ cons = IdleConsumers
    /\ gate = OpenGate
    /\ worker = NoWorker

\* check_quota(student_id): returns the QuotaResult
CheckQuota(student_id) ==
    /\ lastCall' = [op |-> "check", student_id |-> student_id,
                    result |-> CheckSubscriptionQuota(student_id)]
    /\ UNCHANGED <<tick, sessions, endcall, summaries, snapshots, flags, links, subs, gate, worker, credits, resp, cons>>

\* consume_quota(student_id, minutes); before is the table as the call found it
ConsumeQuota(student_id, minutes) ==
    /\ credits' = ConsumeQuotaMinutes(student_id, minutes)
    /\ lastCall' = [op |-> "consume", student_id |-> student_id, minutes |-> minutes,
                    before |-> credits,
                    remaining_before |->
                       [p \in Profiles |-> QuotaForProfile(p, p = student_id).remaining_minutes]]
    /\ UNCHANGED <<tick, sessions, endcall, summaries, snapshots, flags, links, subs, gate, worker, resp, cons>>

ConsumeAmounts == {0, 2, MaxCredit + 2}

NextLedger ==
    \/ \E student_id \in {Student, Stranger} : CheckQuota(student_id)
    \/ \E minutes \in ConsumeAmounts : ConsumeQuota(Student, minutes)

SpecLedger == InitLedger /\ [][NextLedger]_vars

-----------------------------------------------------------------------------
(* create_session and the redemption of an invite code, on any contents of  *)
(* the tables the gates read                                                *)

GateRestrictions ==
    {<<>>, <<Restriction(30, NULL, <<>>)>>, <<Restriction(NULL, 30, <<>>)>>}
       \cup {<<Restriction(31, 31, <<Window(d)>>)>> : d \in 0 .. 6}

GateClocks(restrictions) ==
    IF restrictions # <<>> /\ restrictions[1].blocked_times # <<>>
    THEN {[weekday |-> w, time |-> h] : w \in Weekdays, h \in {0, 900, 1700, 2359}}
    ELSE {[weekday |-> 0, time |-> 900]}

GateProfiles ==
    {[terms_accepted_at |-> 0, deleted_at |-> NULL],
     [terms_accepted_at |-> 0, deleted_at |-> 0],
     [terms_accepted_at |-> NULL, deleted_at |-> NULL]}

GateStudents ==
    {[age |-> 12, consent_granted_at |-> NULL, consent_granted_by_parent_id |-> "none"],
     [age |-> 12, consent_granted_at |-> 0, consent_granted_by_parent_id |-> "p2"],
     [age |-> 13, consent_granted_at |-> NULL, consent_granted_by_parent_id |-> "none"]}

GateCourses ==
    {[subject_id |-> NULL, exam_board_id |-> NULL, enrolments |-> <<>>],
     [subject_id |-> 1, exam_board_id |-> 1,
      enrolments |-> <<[id |-> 1, exam_board_id |-> 2], [id |-> 2, exam_board_id |-> 1]>>],
     [subject_id |-> 1, exam_board_id |-> 1, enrolments |-> <<[id |-> 1, exam_board_id |-> 2]>>]}

GateWorlds ==
    {[course_ok |-> ok, restrictions |-> r, total_daily_minutes |-> 30,
      total_weekly_minutes |-> 30, weekday |-> c.weekday, time |-> c.time,
      profile |-> pr, student |-> st,
      subject_id |-> co.subject_id, exam_board_id |-> co.exam_board_id,
      enrolments |-> co.enrolments, invite |-> InviteCode(e)] :
        ok \in BOOLEAN, r \in GateRestrictions, c \in UNION {GateClocks(x) : x \in GateRestrictions},
        pr \in GateProfiles, st \in GateStudents, co \in GateCourses,
        e \in {ClockAt(0), ClockAt(MaxTicks)}}

\* the student's earlier sessions: none, or an hour that used up the free tier
GateHistories ==
    {[i \in 1 .. MaxHistory |-> NoSession],
     [i \in 1 .. MaxHistory |->
         IF i = MaxHistory
         THEN HistoryRow("summarized", ClockAt(0), ClockAt(0) + 3600, 3600)
         ELSE NoSession]}

InitGate ==
    /\ tick = 1
    /\ sessions \in GateHistories
    /\ endcall = [s \in SessionIds |-> IdleCall]
    /\ summaries = <<>>
    /\ snapshots = 0
    /\ flags = 0
    /\ links = <<>>
    /\ subs = [p \in Profiles |-> <<>>]
    /\ credits = [g \in GrantIds |-> NoGrant]
    /\ lastCall = NoCall
    /\ resp = "none"
    /\ cons = IdleConsumers
    /\ gate \in {g \in GateWorlds :
                    [weekday |-> g.weekday, time |-> g.time] \in GateClocks(g.restrictions)}
    /\ worker = NoWorker

NextGate ==
    \/ \E created \in BOOLEAN, listed \in BOOLEAN : CreateSessionSync(EnsureRoom(created, listed))
    \/ \E code \in {"", "ABC"} : ParentLinkCode("p1", code)

SpecGate == InitGate /\ [][NextGate]_vars

-----------------------------------------------------------------------------
(* One agent task from the creation of its watchdog to the end of its        *)
(* finally block                                                            *)

InitWorker ==
    /\ tick = 0
    /\ sessions = [s \in SessionIds |-> NoSession]
    /\ endcall = [s \in SessionIds |-> IdleCall]
    /\ summaries = <<>>
    /\ snapshots = 0
    /\ flags = 0
    /\ links = <<>>
    /\ subs = [p \in Profiles |-> <<>>]
    /\ credits = [g \in GrantIds |-> NoGrant]
    /\ lastCall = NoCall
    /\ resp = "none"
    /\ cons = IdleConsumers
    /\ gate = OpenGate
    /\ worker = RunningWorker

NextWorker ==
    \/ \E role \in {"user", "assistant", "system"}, has_text \in BOOLEAN :
          ConversationItem(role, has_text)
    \/ PersistAcquire
    \/ \E ok \in BOOLEAN : PersistWrite(ok)
    \/ SessionClose
    \/ \E ok \in BOOLEAN : FinalWrite(ok)
    \/ LoopTime
    \/ WatchdogPoll
    \/ \E spoken \in BOOLEAN : SayDone(spoken)

SpecWorker == InitWorker /\ [][NextWorker]_vars

-----------------------------------------------------------------------------
(* The per-turn hook on any chat context and any contents of the chunks      *)
(* table                                                                     *)

Roles == {"system", "developer", "user", "assistant"}

Contexts ==
    UNION { { [i \in 1 .. n |-> ChatMessage(roles[i], i)] : roles \in [1 .. n -> Roles] }
            : n \in 0 .. MaxContext }

Chunk(course_id, topic_id, chunk_id, distance) ==
    [course_id |-> course_id, topic_id |-> topic_id, chunk_id |-> chunk_id, distance |-> distance]

ChunkTables ==
    { <<>>,
      <<Chunk(1, 2, 11, 1)>>,
      <<Chunk(2, 1, 12, 1), Chunk(1, 2, 11, 2)>>,
      <<Chunk(1, 1, 13, 2), Chunk(1, 1, 14, 1)>>,
      <<Chunk(1, 2, 11, 1), Chunk(1, 1, 13, 3), Chunk(1, 1, 14, 2)>> }

InitTurn ==
    /\ tick = 0
    /\ sessions = [s \in SessionIds |-> NoSession]
    /\ endcall = [s \in SessionIds |-> IdleCall]
    /\ summaries = <<>>
    /\ snapshots = 0
    /\ flags = 0
    /\ links = <<>>
    /\ subs = [p \in Profiles |-> <<>>]
    /\ credits = [g \in GrantIds |-> NoGrant]
    /\ lastCall = NoCall
    /\ resp = "none"
    /\ cons = IdleConsumers
    /\ gate = OpenGate
    /\ worker \in { TurnWorker(items, chunks) : items \in Contexts, chunks \in ChunkTables }

NextTurn ==
    \E latest_user \in {"", "q1", "q2"}, embed_ok \in BOOLEAN : UserTurnCompleted(latest_user, embed_ok)

SpecTurn == InitTurn /\ [][NextTurn]_vars

-----------------------------------------------------------------------------
(* start_session_agent on a sessions row of any owner that create_session    *)
(* or end_session has left                                                   *)

OwnedRow(status, student_id, ended_at) ==
    [status |-> status, student_id |-> student_id, started_at |-> NULL, ended_at |-> ended_at,
     duration_seconds |-> IF ended_at = NULL THEN NULL ELSE 0, enrolment_id |-> NULL]

StartRows ==
    { OwnedRow("none", "none", NULL) }
      \cup { OwnedRow("pending", st, NULL) : st \in {Student, Stranger} }
      \cup { OwnedRow(status, st, ClockAt(0)) : status \in {"ended", "summarized"}, st \in {Student, Stranger} }

InitStart ==
    /\ tick = 0
    /\ sessions \in [SessionIds -> StartRows]
    /\ endcall = [s \in SessionIds |-> IdleCall]
    /\ summaries = <<>>
    /\ snapshots = 0
    /\ flags = 0
    /\ links = <<>>
    /\ subs = [p \in Profiles |-> <<>>]
    /\ credits = [g \in GrantIds |-> NoGrant]
    /\ lastCall = NoCall
    /\ resp = "none"
    /\ cons = IdleConsumers
    /\ gate = OpenGate
    /\ worker = [pc |-> "none", starts |-> 0]

NextStart ==
    \/ Tick
    \/ \E s \in SessionIds, student_id \in {Student, Stranger}, credentials_ok \in BOOLEAN,
          config_ok \in BOOLEAN : StartSessionAgent(s, student_id, credentials_ok, config_ok)

SpecStart == InitStart /\ [][NextStart]_vars

-----------------------------------------------------------------------------
(* The profile endpoints under any headers and any setting of the            *)
(* environment                                                               *)

ApiKeys == {"none", "", "key", "wrong"}

Authorizations ==
    { [scheme |-> "none", token |-> ""], [scheme |-> "Basic", token |-> "token-s"] }
      \cup { [scheme |-> "Bearer", token |-> tk] : tk \in {"token-s", "token-p1", "expired"} }

AuthWorlds ==
    { [profile |-> [terms_accepted_at |-> terms, deleted_at |-> NULL],
       parent |-> [deleted_at |-> NULL],
       student |-> OpenGate.student,
       env |-> [internal_api_key |-> key, supabase_configured |-> supabase]]
      : terms \in {NULL, ClockAt(0)}, key \in {"", "key"}, supabase \in BOOLEAN }

InitAuth ==
    /\ tick = 1
    /\ sessions = [s \in SessionIds |-> NoSession]
    /\ endcall = [s \in SessionIds |-> IdleCall]
    /\ summaries = <<>>
    /\ snapshots = 0
    /\ flags = 0
    /\ links = <<>>
    /\ subs = [p \in Profiles |-> <<>>]
    /\ credits = [g \in GrantIds |-> NoGrant]
    /\ lastCall = NoCall
    /\ resp = "none"
    /\ cons = IdleConsumers
    /\ gate \in AuthWorlds
    /\ worker = NoWorker

NextAuth ==
    \E x_internal_api_key \in ApiKeys, authorization \in Authorizations :
       \/ TermsAccept(x_internal_api_key, authorization)
       \/ \E studentId \in {Student, Stranger} :
             ConsentStatus(studentId, x_internal_api_key, authorization)
       \/ DeleteProfile(x_internal_api_key, authorization)

SpecAuth == InitAuth /\ [][NextAuth]_vars

-----------------------------------------------------------------------------
(* end_session for a live session while its agent task runs: the requests of *)
(* the HTTP handler and the tasks of the agent interleave                    *)

LiveRow ==
    [NoSession EXCEPT !.status = "live", !.started_at = ClockAt(0)]

InitEnd ==
    /\ tick = 1
    /\ sessions = [s \in SessionIds |-> LiveRow]
    /\ endcall = [s \in SessionIds |-> IdleCall]
    /\ summaries = <<>>
    /\ snapshots = 0
    /\ flags = 0
    /\ links = <<>>
    /\ subs = [p \in Profiles |-> <<>>]
    /\ credits = [g \in GrantIds |-> NoGrant]
    /\ lastCall = NoCall
    /\ resp = "none"
    /\ cons = IdleConsumers
    /\ gate = OpenGate
    /\ worker = RunningWorker

\* the steps of the agent task that touch the transcript
AgentTranscriptSteps ==
    \/ \E role \in {"user", "assistant"} : ConversationItem(role, TRUE)
    \/ PersistAcquire
    \/ \E ok \in BOOLEAN : PersistWrite(ok)
    \/ SessionClose
    \/ \E ok \in BOOLEAN : FinalWrite(ok)

\* the steps of one end_session request of the session's student
EndSessionSteps ==
    \/ \E s \in SessionIds : EndBegin(s, Student)
    \/ \E s \in SessionIds : TranscriptRead(s)
    \/ \E s \in SessionIds : TranscriptSleep(s)
    \/ \E s \in SessionIds, ok \in BOOLEAN : GenerateSummaryAndProgress(s, ok)
    \/ \E s \in SessionIds : EndWrite(s, 0, "ok")
    \/ \E s \in SessionIds : EndConsume(s)

NextEnd ==
    \/ AgentTranscriptSteps
    \/ EndSessionSteps

SpecEnd == InitEnd /\ [][NextEnd]_vars

\* the same with the silence watchdog of the agent task, when every write and both
\* model calls succeed
NextEndWatch ==
    \/ \E role \in {"user", "assistant"} : ConversationItem(role, TRUE)
    \/ PersistAcquire
    \/ PersistWrite(TRUE)
    \/ SessionClose
    \/ FinalWrite(TRUE)
    \/ LoopTime
    \/ WatchdogPoll
    \/ \E spoken \in BOOLEAN : SayDone(spoken)
    \/ \E s \in SessionIds : EndBegin(s, Student)
    \/ \E s \in SessionIds : TranscriptRead(s)
    \/ \E s \in SessionIds : TranscriptSleep(s)
    \/ \E s \in SessionIds : GenerateSummaryAndProgress(s, TRUE)
    \/ \E s \in SessionIds : EndWrite(s, 0, "ok")
    \/ \E s \in SessionIds : EndConsume(s)

SpecEndWatch == InitEnd /\ [][NextEndWatch]_vars

-----------------------------------------------------------------------------
(* Two _consume_credits transactions for the same payer, statement by       *)
(* statement, under READ COMMITTED: a SELECT sees the committed rows, an     *)
(* UPDATE takes the row's lock and waits while the other transaction holds   *)
(* it, the commit publishes the relative decrements and releases the locks.  *)

Other(c) == CHOOSE d \in Consumers : d # c

ConcCredits ==
    {[g \in GrantIds |-> Grant(Student, m[g], NULL, MaxGrants - g)] :
        m \in [GrantIds -> 0 .. MaxCredit]}

InitConc ==
    /\ tick = 0
    /\ sessions = [s \in SessionIds |-> NoSession]
    /\ endcall = [s \in SessionIds |-> IdleCall]
    /\ summaries = <<>>
    /\ snapshots = 0
    /\ flags = 0
    /\ links = <<>>
    /\ subs = [p \in Profiles |-> <<>>]
    /\ credits \in ConcCredits
    /\ lastCall = [op |-> "concurrent", before |-> credits]
    /\ resp = "none"
    /\ cons \in [Consumers -> {IdleConsumer(n) : n \in 0 .. MaxCredit}]
    /\ gate = OpenGate
    /\ worker = NoWorker

\* if minutes_to_consume <= 0: return; otherwise the SELECT of the eligible rows
ConcSelect(c) ==
    /\ cons[c].pc = "idle"
    /\ cons' = [cons EXCEPT ![c] =
                  IF cons[c].minutes <= 0
                  THEN [@ EXCEPT !.pc = "done"]
                  ELSE [@ EXCEPT !.pc = "loop",
                                 !.rows = SelectGrantRows(credits, Student),
                                 !.remaining = cons[c].minutes]]
    /\ UNCHANGED <<tick, sessions, endcall, summaries, snapshots, flags, links, subs, gate, worker,
                   credits, lastCall, resp>>

\* one iteration of the for loop: the UPDATE of the next selected row
ConcUpdate(c) ==
    /\ cons[c].pc = "loop"
    /\ cons[c].rows # <<>>
    /\ cons[c].remaining > 0
    /\ LET row == Head(cons[c].rows)
           deduction == Min(cons[c].remaining, row.available)
       IN  /\ row.id \notin cons[Other(c)].locked
           /\ cons' = [cons EXCEPT ![c] =
                         [@ EXCEPT !.rows = Tail(cons[c].rows),
                                   !.remaining = cons[c].remaining - deduction,
                                   !.locked = cons[c].locked \cup {row.id},
                                   !.deducted = [cons[c].deducted EXCEPT ![row.id] = deduction]]]
    /\ UNCHANGED <<tick, sessions, endcall, summaries, snapshots, flags, links, subs, gate, worker,
                   credits, lastCall, resp>>

\* the loop is over (rows exhausted, or break on remaining <= 0): conn.commit()
ConcCommit(c) ==
    /\ cons[c].pc = "loop"
    /\ cons[c].rows = <<>> \/ cons[c].remaining <= 0
    /\ credits' = [g \in GrantIds |->
                     [credits[g] EXCEPT !.minutes_remaining = @ - cons[c].deducted[g]]]
    /\ cons' = [cons EXCEPT ![c] = [@ EXCEPT !.pc = "done", !.locked = {}]]
    /\ UNCHANGED <<tick, sessions, endcall, summaries, snapshots, flags, links, subs, gate, worker,
                   lastCall, resp>>

NextConc ==
    \E c \in Consumers :
       \/ ConcSelect(c)
       \/ ConcUpdate(c)
       \/ ConcCommit(c)

SpecConc == InitConc /\ [][NextConc]_vars

-----------------------------------------------------------------------------
(* Properties of the session lifecycle (specification Spec) *)

Rank(status) ==
    CASE status = "none" -> 0
      [] status = "pending" -> 1
      [] status = "live" -> 2
      [] status = "ended" -> 3
      [] status = "summarized" -> 4

EndBeginStep(s) == endcall[s].pc = "idle" /\ endcall'[s].pc = "gen"

GenFailStep(s) == endcall[s].pc = "gen" /\ endcall'[s].pc = "idle"

WriteFailStep(s) == endcall[s].pc = "write" /\ endcall'[s].pc = "idle"

ConsumeStep(s) == endcall[s].pc = "consume" /\ endcall'[s].pc = "idle"

\* C1: over any sequence of create_session, start_session_agent and end_session calls a
\* session's status never moves backward in the order pending < live < ended < summarized.
C1_StatusNeverMovesBackward ==
    [][\A s \in SessionIds : Rank(sessions'[s].status) >= Rank(sessions[s].status)]_vars

\* C2: the credit consumption of end_session is idempotent: the consumption step of a
\* second (or later) end_session call that completes for the same session leaves every
\* credit grant's minutes_remaining as the first call left it.
C2_SecondEndConsumesNothing ==
    [][\A s \in SessionIds : (ConsumeStep(s) /\ Rev(s) >= 2) => credits' = credits]_vars

\* C4: end_session commits status ended, ended_at and duration_seconds before
\* summarization starts, and a failure of summary/progress generation leaves that
\* session row as committed: still ended, with ended_at and duration_seconds recorded.
C4_EndedSurvivesGenerationFailure ==
    [][\A s \in SessionIds :
         /\ EndBeginStep(s) =>
              /\ sessions'[s].status = "ended"
              /\ sessions'[s].ended_at = Now
              /\ sessions'[s].duration_seconds =
                   (IF sessions[s].started_at = NULL THEN 0 ELSE Now - sessions[s].started_at)
              /\ sessions'[s].duration_seconds >= 0
         /\ GenFailStep(s) =>
              /\ sessions'[s] = sessions[s]
              /\ sessions[s].ended_at # NULL
              /\ sessions[s].duration_seconds # NULL
              /\ sessions[s].status \in {"ended", "live"}
              /\ (sessions[s].status = "live" => sessions[s].started_at >= sessions[s].ended_at)
      ]_vars

\* a generation failure has happened and the session is ended with its times recorded
C4_Witness ==
    /\ resp = "gen_error"
    /\ \E s \in SessionIds :
         /\ endcall[s].pc = "idle"
         /\ sessions[s].status = "ended"
         /\ sessions[s].ended_at = Now
         /\ sessions[s].duration_seconds > 0

\* C5: when the progress-snapshot insert or a repeat-flag insert fails during
\* end_session, the summary written for the session and the summarized status stay
\* committed.
C5_SummarySurvivesProgressFailure ==
    [][\A s \in SessionIds :
         (WriteFailStep(s) /\ resp' \in {"progress_fails", "repeat_fails"}) =>
            /\ \E i \in DOMAIN summaries' : summaries'[i].session_id = s
            /\ sessions'[s].status = "summarized"
      ]_vars

\* C6: when summary generation, the summary write or the progress write fails during
\* end_session, ledger consumption for the computed duration is still carried out.
C6_ConsumptionSurvivesFailure ==
    [][\A s \in SessionIds :
         (GenFailStep(s) \/ WriteFailStep(s)) =>
            credits' = ConsumeQuotaMinutes(Student, MinutesConsumed(endcall[s].duration_seconds))
      ]_vars

\* sessions of the payer's students in status summarized that started in [ps, pe)
SummarizedInPeriod(profile_id, period_start, period_end) ==
    {s \in DOMAIN sessions :
        /\ ProfileStudentIds(profile_id) # {}
        /\ sessions[s].status = "summarized"
        /\ (period_start # NULL =>
              sessions[s].started_at # NULL /\ sessions[s].started_at >= period_start)
        /\ (period_end # NULL =>
              sessions[s].started_at # NULL /\ sessions[s].started_at < period_end)}

\* C8: the subscription-period remainder of a payer is max(0, monthly_minutes - M),
\* M counting only summarized sessions started in [period_start, period_end).
C8_PeriodUsageCountsSummarizedOnly ==
    \A i \in DOMAIN CandidateProfileIds(Student) :
       LET p == CandidateProfileIds(Student)[i]
           row == ActiveSubscriptionForProfile(p)
           M == SumSeconds(SummarizedInPeriod(p, row.period_start, row.period_end)) \div 60
       IN  (row.status # "none" /\ row.monthly_minutes # NULL /\ row.monthly_minutes > 0) =>
              QuotaForProfile(p, p = Student).subscription_minutes_remaining
                 = Max(0, row.monthly_minutes - M)

\* C21: end_session called with an unknown session id, or with a student_id that is not
\* the session's owner, fails (not found) and leaves the session's status, ended_at and
\* duration_seconds, its summary, the progress snapshots, the repeat flags and all credit
\* balances unchanged; no later step of end_session is started for it.
C21_ForeignEndChangesNothing ==
    [][\A s \in SessionIds, student_id \in {Student, Stranger} :
         (EndBegin(s, student_id) /\ (sessions[s].status = "none" \/ student_id # Student)) =>
            /\ resp' = "not_found"
            /\ sessions' = sessions
            /\ summaries' = summaries
            /\ snapshots' = snapshots
            /\ flags' = flags
            /\ credits' = credits
            /\ endcall' = endcall
      ]_vars

\* an end_session call was refused while a session that has not ended exists, and
\* nothing was written for it
C21_Witness ==
    /\ resp = "not_found"
    /\ \E s \in SessionIds :
         /\ sessions[s].status \in {"pending", "live"}
         /\ sessions[s].ended_at = NULL
         /\ Rev(s) = 0
         /\ endcall[s].pc = "idle"
    /\ \E g \in GrantIds : credits[g].minutes_remaining > 0

\* C23: no status change of a session skips a state: a session becomes live only from
\* pending, ended only from live and summarized only from ended, also when end_session
\* is called on a session for which start_session_agent never ran.
C23_NoTransitionSkipsAState ==
    [][\A s \in SessionIds :
         sessions'[s].status # sessions[s].status =>
            \/ sessions[s].status = "none" /\ sessions'[s].status = "pending"
            \/ sessions[s].status = "pending" /\ sessions'[s].status = "live"
            \/ sessions[s].status = "live" /\ sessions'[s].status = "ended"
            \/ sessions[s].status = "ended" /\ sessions'[s].status = "summarized"
      ]_vars

\* C30: in every reachable state a session whose status is summarized has a
\* session_summaries row, and no session ever has more than one such row, however many
\* times end_session is called for it.
C30_OneSummaryPerSummarizedSession ==
    \A s \in SessionIds :
       /\ sessions[s].status = "summarized" => Cardinality(SummaryRows(s)) = 1
       /\ Cardinality(SummaryRows(s)) <= 1

\* end_session has completed twice for a session: it is summarized and its one summary
\* row has been written twice
C30_Witness ==
    \E s \in SessionIds :
       /\ sessions[s].status = "summarized"
       /\ endcall[s].pc = "idle"
       /\ Cardinality(SummaryRows(s)) = 1
       /\ Rev(s) = 2

-----------------------------------------------------------------------------
(* Properties of concurrent consumption (specification SpecConc) *)

BothDone == \A c \in Consumers : cons[c].pc = "done"

\* C3: while two credit consumptions for the same payer interleave, no grant's
\* minutes_remaining is ever negative, and once both have finished the payer's total
\* credit remainder is max(0, remainder before - N1 - N2).
C3_ConcurrentConsumptionIsExact ==
    /\ \A g \in GrantIds : credits[g].minutes_remaining >= 0
    /\ BothDone =>
          CreditsRemainingIn(credits, Student)
             = Max(0, CreditsRemainingIn(lastCall.before, Student) - cons[1].minutes - cons[2].minutes)

-----------------------------------------------------------------------------
(* Properties of the ledger interface (specification SpecLedger) *)

Checked == lastCall.op = "check" /\ lastCall.student_id = Student

Consumed == lastCall.op = "consume"

ComponentSum(c) ==
    c.free_minutes_remaining + c.subscription_minutes_remaining + c.credits_minutes_remaining

\* C7: check_quota returns, among the candidates (the student, then every linked
\* parent), an allowed one with the greatest remaining_minutes of the allowed ones; with
\* none allowed, a not-allowed one with the greatest remaining_minutes; a candidate is
\* allowed exactly when its free + subscription + credit minutes are more than 0.
C7_CheckQuotaSelectsGreatestAllowed ==
    Checked =>
       LET r == lastCall.result
           C == Range(Candidates(Student))
           A == {c \in C : c.allowed}
       IN  /\ r \in C
           /\ {c.billing_profile_id : c \in C} = {Student} \cup Range(links)
           /\ A # {} => (r \in A /\ \A c \in A : c.remaining_minutes <= r.remaining_minutes)
           /\ A = {} => (~r.allowed /\ \A c \in C : c.remaining_minutes <= r.remaining_minutes)
           /\ \A c \in C : c.allowed <=> ComponentSum(c) > 0
           /\ \A c \in A : c.remaining_minutes = ComponentSum(c)

\* a linked parent with more minutes than the (allowed) student's own profile was returned
C7_Witness ==
    /\ Checked
    /\ Len(links) = 2
    /\ lastCall.result.allowed
    /\ lastCall.result.billing_profile_id = links[2]
    /\ \A i \in DOMAIN Candidates(Student) : Candidates(Student)[i].allowed
    /\ Candidates(Student)[1].remaining_minutes < lastCall.result.remaining_minutes

RECURSIVE TotalSeconds(_)
TotalSeconds(S) ==
    IF S = {} THEN 0
    ELSE LET s == CHOOSE x \in S : TRUE
         IN  (IF sessions[s].duration_seconds = NULL THEN 0 ELSE sessions[s].duration_seconds)
               + TotalSeconds(S \ {s})

LifetimeMinutesUsed == TotalSeconds({s \in DOMAIN sessions : sessions[s].status # "none"}) \div 60

\* C9: every quota result computed for a linked parent has free-tier component 0; the
\* result for the student's own profile has free tier max(0, 60 - lifetime minutes used),
\* however many parents are linked.
C9_FreeTierOnlyForStudent ==
    Checked =>
       /\ \A i \in DOMAIN Candidates(Student) :
             LET c == Candidates(Student)[i]
             IN  /\ c.billing_profile_id \in Parents => c.free_minutes_remaining = 0
                 /\ c.billing_profile_id = Student =>
                      c.free_minutes_remaining = Max(0, 60 - LifetimeMinutesUsed)
       /\ lastCall.result.billing_profile_id \in Parents =>
             lastCall.result.free_minutes_remaining = 0
       /\ lastCall.result.billing_profile_id = Student =>
             lastCall.result.free_minutes_remaining = Max(0, 60 - LifetimeMinutesUsed)

\* two parents are linked, the student has used part of the free tier, a parent was returned
C9_Witness ==
    /\ Checked
    /\ Len(links) = 2
    /\ LifetimeMinutesUsed > 0
    /\ Candidates(Student)[1].free_minutes_remaining > 0
    /\ Candidates(Student)[1].free_minutes_remaining < 60
    /\ lastCall.result.billing_profile_id \in Parents

HoldsActiveSubscription(p) ==
    \E i \in DOMAIN subs[p] : subs[p][i].status \in {"active", "trialing", "past_due"}

\* C10: if any candidate payer (the student or a linked parent) holds a subscription in
\* status active, trialing or past_due, consume_quota leaves every credit grant of every
\* payer unchanged, whatever the minutes and whatever the subscription's allowance.
C10_SubscriptionMakesConsumeNoOp ==
    (Consumed /\ \E p \in {Student} \cup Range(links) : HoldsActiveSubscription(p))
       => credits = lastCall.before

\* minutes were consumed while only a linked parent holds a subscription, whose allowance
\* is used up, and the student holds credits
C10_Witness ==
    /\ Consumed
    /\ lastCall.minutes > 0
    /\ ~HoldsActiveSubscription(Student)
    /\ \E p \in Range(links) :
          /\ HoldsActiveSubscription(p)
          /\ QuotaForProfile(p, FALSE).subscription_minutes_remaining = 0
    /\ CreditsRemainingForProfile(Student) > 0

NoCandidateSubscribes == \A p \in {Student} \cup Range(links) : ~HoldsActiveSubscription(p)

\* the grants of payer p that a consumption may draw on: positive balance, not expired
Drawable(cr, p) ==
    {g \in GrantIds : /\ cr[g].profile_id = p
                      /\ cr[g].minutes_remaining > 0
                      /\ (cr[g].expires_at = NULL \/ cr[g].expires_at > Now)}

RECURSIVE Balance(_, _)
Balance(cr, G) ==
    IF G = {} THEN 0
    ELSE LET g == CHOOSE x \in G : TRUE
         IN  cr[g].minutes_remaining + Balance(cr, G \ {g})

\* what is still owed of n when grant g of payer p is reached, oldest grant first
Owed(cr, p, g, n) ==
    LET earlier == {h \in Drawable(cr, p) : cr[h].created_at < cr[g].created_at}
        rest == n - Balance(cr, earlier)
    IN  IF rest > 0 THEN rest ELSE 0

OldestFirst(cr, p, n) ==
    [g \in GrantIds |->
        IF g \in Drawable(cr, p)
        THEN LET owed == Owed(cr, p, g, n)
                 taken == IF owed < cr[g].minutes_remaining THEN owed
                          ELSE cr[g].minutes_remaining
             IN  [cr[g] EXCEPT !.minutes_remaining = @ - taken]
        ELSE cr[g]]

LargestCreditPayers(cr) ==
    {p \in {Student} \cup Range(links) :
        /\ Balance(cr, Drawable(cr, p)) > 0
        /\ \A q \in {Student} \cup Range(links) :
              Balance(cr, Drawable(cr, q)) <= Balance(cr, Drawable(cr, p))}

\* C11: with no candidate payer subscribed, consume_quota(student, N) deducts from a
\* candidate payer with the largest credit remainder, taking that payer's non-expired
\* grants oldest first, min(amount still owed, grant balance) from each, until N is
\* exhausted or the grants run out; every other grant is left as it was.
C11_ConsumeDrawsOldestGrantFirst ==
    (Consumed /\ lastCall.minutes > 0 /\ NoCandidateSubscribes) =>
       IF LargestCreditPayers(lastCall.before) = {}
       THEN credits = lastCall.before
       ELSE \E p \in LargestCreditPayers(lastCall.before) :
               credits = OldestFirst(lastCall.before, p, lastCall.minutes)

\* two minutes were drawn from a payer whose older grant held one: it is emptied and
\* the remainder is taken from the newer grant
C11_Witness ==
    /\ Consumed
    /\ lastCall.minutes = 2
    /\ NoCandidateSubscribes
    /\ \E p \in Range(links) :
          /\ lastCall.before[1].profile_id = p
          /\ lastCall.before[2].profile_id = p
          /\ Balance(lastCall.before, Drawable(lastCall.before, Student)) = 0
    /\ lastCall.before[2].minutes_remaining = 1
    /\ credits[2].minutes_remaining = 0
    /\ credits[1].minutes_remaining = lastCall.before[1].minutes_remaining - 1

CreditsWereTheSource ==
    /\ Consumed
    /\ lastCall.minutes > 0
    /\ NoCandidateSubscribes
    /\ LargestCreditPayers(lastCall.before) # {}

\* C12: consume_quota(student, N), N >= 0, never increases any payer's remaining
\* minutes, and when credits are the consumption source the chosen payer's credit
\* remainder afterwards is max(0, remainder before - N), the other payers' unchanged.
C12_ConsumeNeverIncreasesRemaining ==
    Consumed =>
       /\ \A p \in Profiles :
             /\ QuotaForProfile(p, p = Student).remaining_minutes <= lastCall.remaining_before[p]
             /\ Balance(credits, Drawable(credits, p))
                   <= Balance(lastCall.before, Drawable(lastCall.before, p))
       /\ CreditsWereTheSource =>
             \E p \in LargestCreditPayers(lastCall.before) :
                /\ Balance(credits, Drawable(credits, p))
                      = Max(0, Balance(lastCall.before, Drawable(lastCall.before, p))
                                  - lastCall.minutes)
                /\ \A q \in Profiles \ {p} :
                      Balance(credits, Drawable(credits, q))
                         = Balance(lastCall.before, Drawable(lastCall.before, q))

\* more minutes were consumed than the chosen payer held: its remainder went to 0
C12_Witness ==
    /\ CreditsWereTheSource
    /\ \E p \in LargestCreditPayers(lastCall.before) :
          /\ Balance(lastCall.before, Drawable(lastCall.before, p)) > 1
          /\ Balance(lastCall.before, Drawable(lastCall.before, p)) < lastCall.minutes
          /\ Balance(credits, Drawable(credits, p)) = 0

\* the grants whose row a consumption changed, and their payers
ChangedGrants == {g \in GrantIds : credits[g] # lastCall.before[g]}

ChargedPayers == {lastCall.before[g].profile_id : g \in ChangedGrants}

CandidatePayers == {Student} \cup Range(links)

\* C29: consume_quota deducts from the credit grants of at most one payer, a candidate
\* payer: the grants of every other payer are left as they were, also when the chosen
\* payer's credits are fewer than the minutes consumed (the shortfall is dropped, not
\* charged to another payer).
C29_AtMostOnePayerIsCharged ==
    Consumed =>
       /\ Cardinality(ChargedPayers) <= 1
       /\ ChargedPayers \subseteq CandidatePayers
       /\ \A g \in ChangedGrants :
             /\ credits[g].profile_id = lastCall.before[g].profile_id
             /\ credits[g].minutes_remaining < lastCall.before[g].minutes_remaining
             /\ credits[g].minutes_remaining >= 0

\* the chosen payer held fewer minutes than were consumed and was emptied, while another
\* candidate payer with credits was left untouched
C29_Witness ==
    /\ CreditsWereTheSource
    /\ \E p \in ChargedPayers, q \in CandidatePayers \ ChargedPayers :
          /\ Balance(lastCall.before, Drawable(lastCall.before, p)) < lastCall.minutes
          /\ Balance(credits, Drawable(credits, p)) = 0
          /\ Balance(credits, Drawable(credits, q)) > 0
          /\ Balance(credits, Drawable(credits, q))
                = Balance(lastCall.before, Drawable(lastCall.before, q))

-----------------------------------------------------------------------------
(* Properties of the gates of create_session (specification SpecGate) *)

Created == lastCall.op = "create"

CourseGateFails(w) == ~w.course_ok

RestrictionGateFails(w) == RestrictionReason(w.restrictions, w) # "none"

QuotaGateFails(q) == ~q.allowed

AccountGateFails(w) ==
    \/ w.profile.deleted_at # NULL
    \/ w.profile.terms_accepted_at = NULL
    \/ w.student.age < 13 /\ w.student.consent_granted_at = NULL

EnrolmentGateFails(w) ==
    /\ w.subject_id # NULL
    /\ \A i \in DOMAIN w.enrolments :
          w.exam_board_id # NULL /\ w.enrolments[i].exam_board_id # w.exam_board_id

\* C13: create_session evaluates its gates in the order course/topic validity, parent
\* restrictions, quota, ToS/account and consent, enrolment, and whatever combination of
\* gates fails it returns one reason, that of the earliest failing gate in this order.
C13_FirstFailingGateIsReported ==
    Created =>
       LET w == lastCall.world
           q == lastCall.quota
       IN  IF CourseGateFails(w) THEN resp = "invalid_course_topic"
           ELSE IF RestrictionGateFails(w)
           THEN resp \in {"daily_limit_reached", "weekly_limit_reached", "time_blocked"}
           ELSE IF QuotaGateFails(q) THEN resp \in {"quota_exceeded", "profile_not_found"}
           ELSE IF AccountGateFails(w)
           THEN resp \in {"account_deleted", "terms_not_accepted", "consent_required"}
           ELSE IF EnrolmentGateFails(w) THEN resp = "not_enrolled"
           ELSE resp \in {"ok", "room_error"}

\* the restrictions, the quota, the consent and the enrolment gate all fail at once and
\* the restriction's reason is the one returned
C13_Witness ==
    /\ Created
    /\ ~CourseGateFails(lastCall.world)
    /\ RestrictionGateFails(lastCall.world)
    /\ QuotaGateFails(lastCall.quota)
    /\ AccountGateFails(lastCall.world)
    /\ EnrolmentGateFails(lastCall.world)
    /\ resp = "daily_limit_reached"

GateFailed == resp \notin {"ok", "room_error"}

NoRowInserted == sessions = lastCall.sessions_before

OnePendingRowInserted ==
    \E s \in SessionIds :
       /\ lastCall.sessions_before[s].status = "none"
       /\ sessions[s].status = "pending"
       /\ \A u \in SessionIds \ {s} : sessions[u] = lastCall.sessions_before[u]

\* C28: if create_session fails at any gate (course/topic, restrictions, quota, deleted
\* account or terms, consent, enrolment) no room is provisioned and no sessions row is
\* inserted; a row is inserted only once the room has been confirmed, and always with
\* status pending.
C28_RowOnlyAfterRoom ==
    Created =>
          /\ GateFailed => (lastCall.room = "none" /\ NoRowInserted)
          /\ resp = "room_error" => (lastCall.room = "failed" /\ NoRowInserted)
          /\ resp = "ok" => (lastCall.room = "confirmed" /\ OnePendingRowInserted)
          /\ ~NoRowInserted => (resp = "ok" /\ lastCall.room = "confirmed")

\* the enrolment gate, the last one, refused the request: no room and no row
C28_Witness ==
    /\ Created
    /\ resp = "not_enrolled"
    /\ lastCall.room = "none"
    /\ NoRowInserted
    /\ \A s \in SessionIds : sessions[s].status = "none"

\* the day of the week of the local clock, 0 = Sunday ... 6 = Saturday
SundayBased(weekday) == IF weekday = 6 THEN 0 ELSE weekday + 1

InsideBlockedWindow(w) ==
    \E i \in DOMAIN w.restrictions :
       \E j \in DOMAIN w.restrictions[i].blocked_times :
          LET b == w.restrictions[i].blocked_times[j]
          IN  /\ b.dayOfWeek = SundayBased(w.weekday)
              /\ b.startTime <= w.time
              /\ w.time <= b.endTime

NoCapReached(w) ==
    \A i \in DOMAIN w.restrictions :
       /\ w.restrictions[i].max_daily_minutes # NULL =>
             w.total_daily_minutes < w.restrictions[i].max_daily_minutes
       /\ w.restrictions[i].max_weekly_minutes # NULL =>
             w.total_weekly_minutes < w.restrictions[i].max_weekly_minutes

\* C14: for every day of the week d in 0..6 (0 = Sunday) and time of day t, if a
\* restriction of the student has a blocked window with dayOfWeek = d and
\* startTime <= t <= endTime, create_session attempted at (d, t) for a valid course and
\* topic, with no minutes cap reached, fails with the time-blocked reason.
C14_BlockedWindowRefusesCreation ==
    (/\ Created
     /\ lastCall.world.course_ok
     /\ NoCapReached(lastCall.world)
     /\ InsideBlockedWindow(lastCall.world)) => resp = "time_blocked"

\* C15: a student under 13 without a consent grant is refused with consent_required once
\* the earlier gates pass; a parent redeeming a valid invite code for that student sets
\* consent_granted_at; from then on create_session is never refused for consent.
C15_ConsentFollowsInviteRedemption ==
    /\ (/\ Created
        /\ ~CourseGateFails(lastCall.world)
        /\ ~RestrictionGateFails(lastCall.world)
        /\ ~QuotaGateFails(lastCall.quota)
        /\ lastCall.world.profile.deleted_at = NULL
        /\ lastCall.world.profile.terms_accepted_at # NULL
        /\ lastCall.world.student.age < 13
        /\ lastCall.world.student.consent_granted_at = NULL) => resp = "consent_required"
    /\ (gate.invite.used_at # NULL /\ gate.student.age < 13) =>
          gate.student.consent_granted_at # NULL
    /\ (Created /\ lastCall.world.invite.used_at # NULL) => resp # "consent_required"

\* the invite code was redeemed by the parent, who thereby granted the consent, and the
\* under-13 student's request then created a session
C15_Witness ==
    /\ Created
    /\ resp = "ok"
    /\ lastCall.world.student.age < 13
    /\ lastCall.world.invite.used_at # NULL
    /\ lastCall.world.student.consent_granted_by_parent_id = "p1"
    /\ links = <<"p1">>

-----------------------------------------------------------------------------
(* Properties of the agent task (specification SpecWorker) *)

AllPersistsCompleted ==
    /\ worker.pc = "closed"
    /\ worker.final.pc = "done"
    /\ worker.tasks = <<>>
    /\ worker.failures = 0

\* C16: for any interleaving of the utterances of the two speakers, the snapshot persist
\* tasks and the final persist at shutdown, once all persists have completed the stored
\* transcript holds every completed utterance exactly once, in the order of completion.
C16_StoredTranscriptIsComplete ==
    AllPersistsCompleted =>
       /\ worker.stored = worker.items
       /\ \A i \in DOMAIN worker.stored : worker.stored[i].n = i

\* both speakers spoke, the utterances alternating, and every persist has completed
C16_Witness ==
    /\ AllPersistsCompleted
    /\ Len(worker.items) = MaxUtterances
    /\ worker.items[1].speaker = "TutorBot"
    /\ worker.items[2].speaker = "Student"
    /\ worker.stored = worker.items

\* C17: in one uninterrupted silence of the student after a tutor utterance the watchdog
\* issues no more than one re-engagement prompt, however long the silence lasts, and it
\* issues none before the tutor has spoken or once the student has spoken since.
C17_OnePromptPerSilence ==
    /\ worker.nudges <= 1
    /\ worker.nudges >= 1 => (worker.spoke /\ ~worker.replied)

SnapshotWriteInFlight == worker.tasks # <<>> /\ worker.tasks[1].pc = "write"

FinalWriteInFlight == worker.final.pc = "write"

\* C27: no two transcript persist operations of one session run at the same time: every
\* snapshot-and-write of the transcript buffer, the final one at shutdown included, is
\* done under the session's lock, so the stored transcript is never replaced by an older
\* (shorter) snapshot.
C27_PersistsAreSerialized ==
    /\ [](~(SnapshotWriteInFlight /\ FinalWriteInFlight))
    /\ [][Len(worker'.stored) >= Len(worker.stored)]_vars

-----------------------------------------------------------------------------
(* Properties of the per-turn hook (specification SpecTurn) *)

SystemItems(items) == SelectSeq(items, LAMBDA item : item.role = "system")

NonSystemItems(items) == SelectSeq(items, LAMBDA item : item.role # "system")

\* C18: after every completed user turn the chat context holds exactly one system-role
\* message, that message is the one built for this turn from the latest user utterance,
\* and the items of every other role are all kept, in their original order.
C18_OneSystemMessagePerTurn ==
    worker.turns > 0 /\ worker.embed_ok =>
       /\ Len(SystemItems(worker.items)) = 1
       /\ SystemItems(worker.items)[1].content.latest_user = worker.latest_user
       /\ NonSystemItems(worker.items) = NonSystemItems(worker.before)

NoChunkScoped ==
    \A i \in DOMAIN worker.chunks :
       worker.chunks[i].course_id # worker.course_id \/ worker.chunks[i].topic_id # worker.topic_id

\* C19: when no chunk is scoped to the session's course and topic, retrieve returns the
\* empty list and the hook completes without raising, with the fallback text (ask
\* clarifying questions) as the references of the rebuilt system message.
C19_EmptyRetrievalGivesFallback ==
    worker.turns > 0 /\ worker.embed_ok /\ NoChunkScoped =>
       /\ RetrieveChunks(worker.chunks, worker.course_id, worker.topic_id, RetrieveK) = <<>>
       /\ worker.raised = "none"
       /\ worker.items # <<>>
       /\ worker.items[1].role = "system"
       /\ worker.items[1].content.references = FormatReferences(<<>>)

-----------------------------------------------------------------------------
(* Properties of start_session_agent (specification SpecStart) *)

\* C20: start_agent for a session owned by the requesting student, with the LiveKit
\* credentials and the agent's environment in place, hands the agent over to a
\* background task, sets the session live with started_at set, and answers ok.
C20_StartAgentSetsLive ==
    (/\ lastCall.op = "start_agent"
     /\ sessions[lastCall.session_id].status # "none"
     /\ sessions[lastCall.session_id].student_id = lastCall.student_id
     /\ lastCall.credentials_ok
     /\ lastCall.config_ok) =>
       /\ resp = "ok"
       /\ worker.pc = "task"
       /\ sessions[lastCall.session_id].status = "live"
       /\ sessions[lastCall.session_id].started_at # NULL

-----------------------------------------------------------------------------
(* Properties of the authentication of requests (specification SpecAuth) *)

ProfileRequest == lastCall.op \in {"terms_accept", "consent_status", "delete_profile"}

CarriesValidKey ==
    /\ lastCall.before.env.internal_api_key # ""
    /\ lastCall.x_internal_api_key = lastCall.before.env.internal_api_key

CarriesBearerToken == lastCall.authorization.scheme = "Bearer"

\* C22: a request to PATCH /api/profile/terms-accept, GET /api/student/consent-status or
\* DELETE /api/profile that carries neither a valid internal API key nor a bearer token
\* is answered 401 and changes no profile, parent or student state.
C22_UnauthenticatedIsRejected ==
    (ProfileRequest /\ ~CarriesValidKey /\ ~CarriesBearerToken) =>
       /\ resp = "401"
       /\ gate = lastCall.before

\* an unauthenticated DELETE /api/profile, sent with an empty key header while no key is
\* configured, was refused for a profile that is not deleted
C22_Witness ==
    /\ lastCall.op = "delete_profile"
    /\ lastCall.x_internal_api_key = ""
    /\ lastCall.before.env.internal_api_key = ""
    /\ ~CarriesBearerToken
    /\ resp = "401"
    /\ gate.profile.deleted_at = NULL

-----------------------------------------------------------------------------
(* Properties of end_session beside the agent task (specifications SpecEnd   *)
(* and SpecEndWatch)                                                         *)

Generated(s) == endcall[s].pc \in {"write", "consume"}

\* C24: the summarization call and the progress-analysis call of end_session receive the
\* same transcript text, and that text is the final transcript: it holds every utterance
\* of the session, never a snapshot persisted while the agent was still appending.
C24_GenerationSeesFinalTranscript ==
    \A s \in SessionIds :
       Generated(s) =>
          /\ endcall[s].summary_input = endcall[s].progress_input
          /\ endcall[s].summary_input = worker.items

\* C25: after end_session has completed for a session, the silence watchdog task of that
\* session's agent has been cancelled, so that it issues no further re-engagement prompt.
C25_EndCancelsWatchdog ==
    (resp = "ok" /\ \E s \in SessionIds : sessions[s].status = "summarized") =>
       worker.watchdog.pc = "cancelled"

InWait(s) == endcall[s].pc \in {"wait", "sleep", "generate"}

AllBlank(seen, n) == \A i \in 1 .. n : IsBlank(seen[i])

\* C26: the transcript wait of end_session ends after at most max_attempts (6) reads of
\* the transcript store and is never blocked: it returns the first non-blank text it
\* reads, and the empty text if all reads were blank; it sleeps between two attempts and
\* not after the last one.
C26_TranscriptWaitIsBounded ==
    \A s \in SessionIds :
       /\ endcall[s].pc = "gen" => ENABLED TranscriptRead(s)
       /\ endcall[s].pc = "wait" => ENABLED TranscriptRead(s)
       /\ endcall[s].pc = "sleep" => ENABLED TranscriptSleep(s)
       /\ InWait(s) =>
            /\ Len(endcall[s].seen) <= MaxAttempts
            /\ endcall[s].attempt < MaxAttempts
            /\ AllBlank(endcall[s].seen, Len(endcall[s].seen) - 1)
       /\ endcall[s].pc = "sleep" =>
            /\ endcall[s].sleeps = Len(endcall[s].seen) - 1
            /\ Len(endcall[s].seen) < MaxAttempts
            /\ AllBlank(endcall[s].seen, Len(endcall[s].seen))
       /\ endcall[s].pc = "generate" =>
            /\ endcall[s].sleeps = Len(endcall[s].seen) - 1
            /\ endcall[s].transcript_text = endcall[s].seen[Len(endcall[s].seen)]
            /\ IsBlank(endcall[s].transcript_text) => Len(endcall[s].seen) = MaxAttempts

\* the wait gave up: six blank reads, five sleeps, the empty text returned
C26_Witness ==
    \E s \in SessionIds :
       /\ endcall[s].pc = "generate"
       /\ Len(endcall[s].seen) = MaxAttempts
       /\ endcall[s].sleeps = MaxAttempts - 1
       /\ IsBlank(endcall[s].transcript_text)

====
